---- MODULE Spec2Model ----
(***************************************************************************)
(* Authentication / RBAC service (solvejet/cloud_function).                *)
(*                                                                         *)
(* Two specifications share this module:                                   *)
(*   Spec         the request pipeline verifyToken -> loadPermissions ->   *)
(*                hasPermission -> handler, over a role / permission store *)
(*   SessionSpec  the auth controller: login, refreshToken and logout as   *)
(*                concurrent handlers over the userRefreshTokens store     *)
(* The variables of the part a specification does not exercise keep their  *)
(* initial value in it.                                                    *)
(***************************************************************************)
EXTENDS Integers, Sequences, FiniteSets, TLC

VARIABLES
    userRoles,       \* collection userRoles: uid -> role assignment or NoDoc
    roles,           \* collection roles: role id -> Role or NoDoc
    permissions,     \* collection permissions: permission id -> Permission or NoDoc
    req,             \* the Express request context travelling down a route
    tokens,          \* collection userRefreshTokens: doc id -> record or NoDoc
    loginThrottling, \* collection loginThrottling: email:ip -> counter or NoDoc
    now,             \* Date.now(), in seconds
    nextId,          \* next fresh uuid / random token value
    proc,            \* the running controller invocations
    sweep,           \* the scheduled cleanupExpiredTokens task
    swept,           \* doc ids the cleanup task has deleted (its logged count)
    ipRequestCounts, \* rateLimiter: key -> { count, resetTime } or nothing
    clock,           \* Date.now() as the rate limiter reads it, in ms
    hit,             \* requests that went into a rate limiter, till they finish
    tally,           \* per key, what became of the requests of its current window
    call,            \* the running RoleModel calls
    failures,        \* per pair, the failed logins that recorded their attempt
                     \* (tallied under CounterSpec, where every login fails)
    handled,         \* what reached errorHandler, in which mode, and what it sent
    told             \* per pair, when it was last answered LOGIN_THROTTLED and
                     \* the retryAfter of that answer (recorded under HonourSpec)

vars == <<userRoles, roles, permissions, req, tokens, loginThrottling,
          now, nextId, proc, sweep, swept, ipRequestCounts, clock, hit, tally,
          call, failures, handled, told>>

storeVars == <<userRoles, roles, permissions>>
sweepVars == <<sweep, swept>>
limiterVars == <<ipRequestCounts, clock, hit, tally>>
adminVars == <<call>>
sessionVars == <<tokens, loginThrottling, now, nextId, proc, sweepVars, failures>>

(***************************************************************************)
(* Bounds of the model.                                                    *)
(***************************************************************************)
MaxHeaderLen == 2      \* length of an Authorization header, in symbols
MaxAssigned == 2       \* length of a role assignment's roleIds
MaxPerms == 2          \* size of a permission list handed to hasPermission
NumProcs == 2          \* controller invocations in flight at once
MaxTokens == 2         \* refresh tokens minted in one behaviour
MaxTicks == 1          \* clock steps of each size
MaxHits == 2           \* requests inside one rate limiter at a time
MaxRequests == 2       \* maxRequests of the rate limiters
MaxAdmitted == 4       \* requests a limiter admits for one key in one window
\* Failed logins recorded per pair before no further login of the pair starts.
MaxFailures == 2
MaxCount == 16         \* greatest failure count a stored counter starts with
\* Seconds of waiting after a throttled login.
MaxWait == 5

(***************************************************************************)
(* Data model (types/auth.ts).                                             *)
(***************************************************************************)
Uids == {"u1", "u2"}
RoleIds == {"r1", "r2"}
PermIds == {"p1", "p2", "p3", "p4"}
Resources == {"users", "roles", "permissions", "*"}
Actions == {"create", "read", "update", "delete", "manage"}

NoDoc == [exists |-> FALSE]
NoUser == "anonymous"

Permission(id, resource, action) ==
    [id |-> id, resource |-> resource, action |-> action]

\* Sequences over S of length at most n.
SeqUpTo(S, n) == UNION {[1..k -> S] : k \in 0..n}

Range(s) == {s[i] : i \in 1..Len(s)}

(***************************************************************************)
(* verifyToken: the Authorization header.  A header is a string, modelled  *)
(* as a sequence of symbols in which "B" stands for the substring          *)
(* "Bearer " and every other symbol for one other character.               *)
(***************************************************************************)
HeaderSymbols == {"B", "a", "b"}

Headers ==
    {[present |-> FALSE, text |-> <<>>]} \cup
    {[present |-> TRUE, text |-> t] : t \in SeqUpTo(HeaderSymbols, MaxHeaderLen)}

\* !authHeader || !authHeader.startsWith("Bearer ")
NoTokenProvided(h) ==
    \/ ~h.present
    \/ Len(h.text) = 0
    \/ h.text[1] # "B"

\* authHeader.split("Bearer ")[1], for a header that starts with "Bearer ":
\* the text between the first and the second occurrence of the separator.
SplitBearer1(text) ==
    LET rest == Tail(text)
        seps == {i \in 1..Len(rest) : rest[i] = "B"}
        stop == IF seps = {} THEN Len(rest) + 1
                ELSE CHOOSE i \in seps : \A j \in seps : i <= j
    IN  SubSeq(rest, 1, stop - 1)

\* The identity provider: the ID tokens it has issued and their uid.
IdTokenUid(token) ==
    IF token = <<"a">> THEN "u1"
    ELSE IF token = <<"b">> THEN "u2"
    ELSE NoUser

\* auth().verifyIdToken(token): the provider accepts only a token it issued,
\* and may reject any token (expired, revoked): NoUser stands for a rejection.
VerifyIdToken(token, outcome) ==
    IF outcome = "accept" THEN IdTokenUid(token) ELSE NoUser

(***************************************************************************)
(* Express dispatch: next() runs the next middleware of the route, and     *)
(* next(err) ends the request in the error handler with err's code.        *)
(***************************************************************************)
CallNext(r) == [r EXCEPT !.pos = r.pos + 1]

NextError(r, status, code) ==
    [r EXCEPT !.state = "responded", !.status = status, !.error = code]

\* An awaited call that never settles: the middleware never resumes.
NeverResumes(r) == [r EXCEPT !.state = "stalled"]

Current(r) ==
    IF r.state = "pending" /\ r.pos <= Len(r.chain) THEN r.chain[r.pos]
    ELSE "none"

Enter(r, mw) == [r EXCEPT !.ran = Append(r.ran, mw)]

\* verifyToken that lets the request through when the provider rejects.
VerifyTokenMwLenient(r, outcome) ==
    IF NoTokenProvided(r.header)
    THEN NextError(r, 401, "NO_TOKEN_PROVIDED")
    ELSE LET token == SplitBearer1(r.header.text) IN
         IF token = <<>>
         THEN NextError(r, 401, "INVALID_TOKEN")
         ELSE CallNext([r EXCEPT !.user = VerifyIdToken(token, outcome)])

\* verifyToken middleware
VerifyTokenMw(r, outcome) ==
    IF NoTokenProvided(r.header)
    THEN NextError(r, 401, "NO_TOKEN_PROVIDED")
    ELSE LET token == SplitBearer1(r.header.text) IN
         IF token = <<>>
         THEN NextError(r, 401, "INVALID_TOKEN")
         ELSE IF VerifyIdToken(token, outcome) # NoUser
              THEN CallNext([r EXCEPT !.user = VerifyIdToken(token, outcome)])
              ELSE NextError(r, 401, "INVALID_TOKEN")

VerifyToken ==
    /\ Current(req) = "verifyToken"
    /\ \E outcome \in {"accept", "reject"} :
          req' = VerifyTokenMw(Enter(req, "verifyToken"), outcome)
    /\ UNCHANGED <<storeVars, adminVars, limiterVars, sessionVars, handled, told>>

\* verifyToken: auth().verifyIdToken(token) never answers.  No timer is armed
\* around the await, so the middleware neither calls next nor responds.
VerifyTokenHangs ==
    /\ Current(req) = "verifyToken"
    /\ ~NoTokenProvided(req.header)
    /\ SplitBearer1(req.header.text) # <<>>
    /\ req' = NeverResumes(Enter(req, "verifyToken"))
    /\ UNCHANGED <<storeVars, adminVars, limiterVars, sessionVars, handled, told>>

(***************************************************************************)
(* errorHandler                                                            *)
(***************************************************************************)
\* process.env.NODE_ENV; "unset" stands for the variable not being set, which
\* startServer takes for development.
NodeEnvs == {"production", "development", "test", "staging", "unset"}

\* let errorMessage = "An unexpected error occurred"
GenericMessage == "An unexpected error occurred"

Messages == {"connect ECONNREFUSED 10.0.0.5:5432", GenericMessage}

\* What can be handed to next(err): an array of express-validator errors, an
\* express-validator Result, an AppError, a standard Error, anything else.
ThrownValues ==
    {[kind |-> k, statusCode |-> 422, errorCode |-> "VALIDATION_ERROR",
      message |-> "Validation failed", context |-> TRUE] :
        k \in {"ValidatorError[]", "Result"}}
    \cup {[kind |-> "AppError", statusCode |-> st, errorCode |-> "APP_ERROR",
           message |-> m, context |-> c] :
             st \in {400, 401, 403, 404, 409, 422, 429, 500}, m \in Messages,
             c \in BOOLEAN}
    \cup {[kind |-> k, statusCode |-> 0, errorCode |-> "none",
           message |-> m, context |-> FALSE] :
             k \in {"Error", "other"}, m \in Messages}

NoResponse == [sent |-> FALSE]

NothingThrown == [env |-> "unset", err |-> [kind |-> "none"], res |-> NoResponse]

\* errorHandler: errorMessage.  isProduction ? "An unexpected error occurred"
\* : err.message for a standard Error; String(err) for any other value.
ErrorMessage(err, env) ==
    CASE err.kind \in {"ValidatorError[]", "Result"} -> "Validation failed"
      [] err.kind = "AppError" -> err.message
      [] err.kind = "Error" ->
            IF env = "production" THEN GenericMessage ELSE err.message
      [] OTHER -> err.message

\* errorHandler: res.status(statusCode).json({ error: { code, message,
\* details?, requestId } }).
ErrorResponse(err, env) ==
    [sent |-> TRUE,
     status |-> IF err.kind \in {"Error", "other"} THEN 500 ELSE err.statusCode,
     code |-> IF err.kind \in {"Error", "other"} THEN "INTERNAL_SERVER_ERROR"
              ELSE err.errorCode,
     message |-> ErrorMessage(err, env),
     details |-> err.context]

ErrorHandler ==
    /\ handled.err.kind # "none"
    /\ ~handled.res.sent
    /\ handled' = [handled EXCEPT !.res = ErrorResponse(handled.err, handled.env)]
    /\ UNCHANGED <<storeVars, adminVars, limiterVars, req, sessionVars, told>>

(***************************************************************************)
(* rateLimiter                                                             *)
(***************************************************************************)
\* A limiter that counts every request and one made with
\* skipSuccessfulRequests; each has a keyGenerator of its own.
Limiters == {"counting", "skipping"}

SkipSuccessfulRequests(l) == l = "skipping"

\* windowMs of both limiters.
WindowMs == 2 * 1000

Clients == {"ip1"}

\* keyGenerator(req)
LimiterKey(l, ip) == <<l, ip>>

\* standardApiLimiter and strictApiLimiter: made without a keyGenerator,
\* with the same windowMs and maxRequests of their own (100 and 10, scaled).
DefaultKeyLimiters == {"standard", "strict"}

MaxRequestsOf(l) == IF l = "standard" THEN MaxRequests + 1 ELSE MaxRequests - 1

\* req.user?.uid ? `user:${req.user.uid}` : `ip:${req.ip}`, for a request
\* without a user.
DefaultKey(ip) == <<"ip", ip>>

\* The keys of ipRequestCounts; the tally is also kept per limiter made
\* without a keyGenerator.
LimiterKeys ==
    {LimiterKey(l, ip) : l \in Limiters, ip \in Clients}
        \cup {DefaultKey(ip) : ip \in Clients}
        \cup {<<l, ip>> : l \in DefaultKeyLimiters, ip \in Clients}

NoTracker == [exists |-> FALSE, count |-> 0, resetTime |-> 0]

Hits == 1..MaxHits

IdleHit == [st |-> "idle", key |-> <<"none", "none">>, skip |-> FALSE,
            window |-> 0, status |-> 0, retryAfter |-> 0, count |-> 0,
            limiter |-> "none"]

NoTally == [admitted |-> 0, failed |-> 0, open |-> 0]

LimiterIdle ==
    /\ ipRequestCounts = [k \in LimiterKeys |-> NoTracker]
    /\ clock = 0
    /\ hit = [r \in Hits |-> IdleHit]
    /\ tally = [k \in LimiterKeys |-> NoTally]

\* The stored window of the key is over at the time of the request.
WindowExpired(k) == ipRequestCounts[k].exists /\ clock > ipRequestCounts[k].resetTime

\* ipRequestCounts[key] || { count: 0, resetTime: now + windowMs }, after the
\* reset of an expired window.
RequestTracker(k) ==
    IF ~ipRequestCounts[k].exists \/ WindowExpired(k)
    THEN [exists |-> TRUE, count |-> 0, resetTime |-> clock + WindowMs]
    ELSE ipRequestCounts[k]

\* Math.ceil((requestTracker.resetTime - now) / 1000)
LimiterRetryAfter(t) == (t.resetTime - clock + 999) \div 1000

\* The middleware: reject with 429 when the count has reached maxRequests,
\* else count the request and call next().  The reset of an expired window
\* is made on the stored object, so it stays also when the request is
\* rejected; a tracker made for a new key is stored only on admission.
RateLimiterMw(r, l, ip) ==
    /\ hit[r].st = "idle"
    /\ WindowExpired(LimiterKey(l, ip)) \/ tally[LimiterKey(l, ip)].admitted < MaxAdmitted
    /\ LET k == LimiterKey(l, ip)
           t == RequestTracker(k)
           fresh == ~ipRequestCounts[k].exists \/ WindowExpired(k)
       IN  IF t.count >= MaxRequests
           THEN /\ hit' = [hit EXCEPT ![r] =
                       [IdleHit EXCEPT !.st = "rejected", !.key = k, !.status = 429,
                                       !.window = t.resetTime, !.count = t.count,
                                       !.retryAfter = LimiterRetryAfter(t)]]
                /\ ipRequestCounts' = IF ipRequestCounts[k].exists
                                      THEN [ipRequestCounts EXCEPT ![k] = t]
                                      ELSE ipRequestCounts
                /\ tally' = IF WindowExpired(k) THEN [tally EXCEPT ![k] = NoTally]
                            ELSE tally
           ELSE /\ hit' = [hit EXCEPT ![r] =
                       [IdleHit EXCEPT !.st = "admitted", !.key = k,
                                       !.skip = SkipSuccessfulRequests(l),
                                       !.window = t.resetTime, !.count = t.count + 1]]
                /\ ipRequestCounts' = [ipRequestCounts EXCEPT ![k] =
                                          [t EXCEPT !.count = @ + 1]]
                /\ tally' = [tally EXCEPT ![k] =
                       LET w == IF fresh THEN NoTally ELSE @
                       IN  [w EXCEPT !.admitted = @ + 1, !.open = @ + 1]]

\* A request of a client arrives at a limiter.
RateLimiter(r, l, ip) ==
    /\ RateLimiterMw(r, l, ip)
    /\ UNCHANGED <<storeVars, adminVars, req, sessionVars, clock, handled, told>>

\* A request without a user arrives at a limiter made without a
\* keyGenerator: the middleware as above, on the tracker of the default key
\* and with the limiter's own maxRequests.
DefaultKeyLimiter(r, l, ip) ==
    /\ hit[r].st = "idle"
    /\ LET k == DefaultKey(ip)
           t == RequestTracker(k)
           fresh == ~ipRequestCounts[k].exists \/ WindowExpired(k)
           owners == {k} \cup {<<m, ip>> : m \in DefaultKeyLimiters}
           w == IF fresh THEN [x \in LimiterKeys |->
                                  IF x \in owners THEN NoTally ELSE tally[x]]
                ELSE tally
       IN  IF t.count >= MaxRequestsOf(l)
           THEN /\ hit' = [hit EXCEPT ![r] =
                       [IdleHit EXCEPT !.st = "rejected", !.key = k, !.status = 429,
                                       !.window = t.resetTime, !.count = t.count,
                                       !.retryAfter = LimiterRetryAfter(t),
                                       !.limiter = l]]
                /\ ipRequestCounts' = IF ipRequestCounts[k].exists
                                      THEN [ipRequestCounts EXCEPT ![k] = t]
                                      ELSE ipRequestCounts
                /\ tally' = IF WindowExpired(k) THEN w ELSE tally
           ELSE /\ hit' = [hit EXCEPT ![r] =
                       [IdleHit EXCEPT !.st = "admitted", !.key = k,
                                       !.window = t.resetTime, !.count = t.count + 1,
                                       !.limiter = l]]
                /\ ipRequestCounts' = [ipRequestCounts EXCEPT ![k] =
                                          [t EXCEPT !.count = @ + 1]]
                /\ tally' = [w EXCEPT ![k].admitted = @ + 1, ![k].open = @ + 1,
                                      ![<<l, ip>>].admitted = @ + 1]
    /\ UNCHANGED <<storeVars, adminVars, req, sessionVars, clock, handled, told>>

Statuses == {200, 401, 500}

\* Math.max(0, ipRequestCounts[key].count - 1)
FinishDecrement(count) == IF count - 1 > 0 THEN count - 1 ELSE 0

\* The response of an admitted request is sent: res.on("finish") of a
\* limiter with skipSuccessfulRequests takes a response below 400 off the
\* count the key holds at that time.
Finish(r, status) ==
    /\ hit[r].st = "admitted"
    /\ LET k == hit[r].key IN
       /\ ipRequestCounts' =
             IF hit[r].skip /\ status < 400 /\ ipRequestCounts[k].exists
             THEN [ipRequestCounts EXCEPT ![k].count = FinishDecrement(@)]
             ELSE ipRequestCounts
       /\ tally' = IF hit[r].window = ipRequestCounts[k].resetTime
                   THEN [tally EXCEPT ![k].open = @ - 1,
                                      ![k].failed = IF status >= 400 THEN @ + 1 ELSE @]
                   ELSE tally
    /\ hit' = [hit EXCEPT ![r] = IdleHit]
    /\ UNCHANGED <<storeVars, adminVars, req, sessionVars, clock, handled, told>>

\* The 429 of a rejected request is sent.
Rejected(r) ==
    /\ hit[r].st = "rejected"
    /\ hit' = [hit EXCEPT ![r] = IdleHit]
    /\ UNCHANGED <<storeVars, adminVars, req, sessionVars, ipRequestCounts, clock, tally, handled, told>>

\* Time passes for the limiter: a millisecond, or a second.
ClockTick(d) ==
    /\ d = 1 => clock % 1000 < MaxTicks
    /\ clock + d <= 2 * WindowMs + MaxTicks
    /\ clock' = clock + d
    /\ UNCHANGED <<storeVars, adminVars, req, sessionVars, ipRequestCounts, hit, tally, handled, told>>

(***************************************************************************)
(* loadPermissions                                                         *)
(***************************************************************************)
\* User.getUserRoles(uid): the role assignment document, or null.
GetUserRoles(uid) == userRoles[uid]

\* RoleModel.getRoleById(roleId): getDocumentById("roles", id, false).
GetRoleById(roleId) == roles[roleId]

\* roles.filter(role => role !== null)
ValidRoles(roleIds) ==
    LET fetched == [i \in 1..Len(roleIds) |-> GetRoleById(roleIds[i])]
        IsRole(d) == d.exists
    IN  SelectSeq(fetched, IsRole)

\* validRoles.flatMap(role => role.permissions)
RECURSIVE FlatMapPermissions(_)
FlatMapPermissions(rs) ==
    IF rs = <<>> THEN <<>>
    ELSE Head(rs).permissions \o FlatMapPermissions(Tail(rs))

\* Permission ids collected without the Set.
DedupNone(ids) == ids

\* Array.from(new Set(ids)): first occurrences, in order.
RECURSIVE Dedup(_)
Dedup(ids) ==
    IF ids = <<>> THEN <<>>
    ELSE LET init == Dedup(SubSeq(ids, 1, Len(ids) - 1))
             last == ids[Len(ids)]
         IN  IF last \in Range(init) THEN init ELSE Append(init, last)

\* RoleModel.getPermissionsByIds: the documents that exist, in id order.
GetPermissionsByIds(permissionIds) ==
    LET fetched == [i \in 1..Len(permissionIds) |-> permissions[permissionIds[i]]]
        Found(d) == d.exists
        Data(d) == Permission(d.id, d.resource, d.action)
        found == SelectSeq(fetched, Found)
    IN  [i \in 1..Len(found) |-> Data(found[i])]

StoreCalls == {"getUserRoles", "getRoleById", "getPermissionsByIds"}
NoFault == [call |-> "none", kind |-> "none"]
Faults == {NoFault} \cup [call : StoreCalls, kind : {"error", "hang"}]

\* The catch block of loadPermissions, or the await that never returns.
LoadFailure(r, kind) ==
    IF kind = "hang"
    THEN NeverResumes([r EXCEPT !.loadFault = "hang"])
    ELSE NextError([r EXCEPT !.loadFault = "error"], 500, "PERMISSION_LOADING_ERROR")

LoadPermissionsMw(r, fault) ==
    IF r.user = NoUser
    THEN NextError(r, 401, "USER_NOT_AUTHENTICATED")
    ELSE IF fault.call = "getUserRoles" THEN LoadFailure(r, fault.kind)
    ELSE LET assignment == GetUserRoles(r.user) IN
         IF ~assignment.exists
         THEN CallNext([r EXCEPT !.permissions = <<>>, !.loaded = TRUE])
         ELSE IF fault.call = "getRoleById" /\ Len(assignment.roleIds) > 0
              THEN LoadFailure(r, fault.kind)
         ELSE LET permissionIds ==
                      Dedup(FlatMapPermissions(ValidRoles(assignment.roleIds)))
              IN  IF fault.call = "getPermissionsByIds" /\ Len(permissionIds) > 0
                  THEN LoadFailure(r, fault.kind)
                  ELSE CallNext([r EXCEPT
                           !.permissions = GetPermissionsByIds(permissionIds),
                           !.loaded = TRUE])

LoadPermissions ==
    /\ Current(req) = "loadPermissions"
    /\ \E fault \in Faults :
          req' = LoadPermissionsMw(Enter(req, "loadPermissions"), fault)
    /\ UNCHANGED <<storeVars, adminVars, limiterVars, sessionVars, handled, told>>

(***************************************************************************)
(* hasPermission(resource, action)                                         *)
(***************************************************************************)
\* The check with a wildcard resource granting every action.
HasRequiredPermissionAnyStar(perms, resource, action) ==
    \E i \in 1..Len(perms) :
        \/ perms[i].resource = resource /\ perms[i].action = action
        \/ perms[i].resource = resource /\ perms[i].action = "manage"
        \/ perms[i].resource = "*"

\* req.permissions.some(perm => ...)
HasRequiredPermission(perms, resource, action) ==
    \E i \in 1..Len(perms) :
        \/ perms[i].resource = resource /\ perms[i].action = action
        \/ perms[i].resource = resource /\ perms[i].action = "manage"
        \/ perms[i].resource = "*" /\ perms[i].action = "manage"

\* hasPermission that treats a missing permission set as nothing to check.
HasPermissionMwSkipUnloaded(r, resource, action) ==
    LET c == [r EXCEPT !.checked = TRUE] IN
    IF ~c.loaded
    THEN CallNext(c)
    ELSE IF ~HasRequiredPermission(c.permissions, resource, action)
         THEN NextError(c, 403, "INSUFFICIENT_PERMISSIONS")
         ELSE CallNext(c)

HasPermissionMw(r, resource, action) ==
    LET c == [r EXCEPT !.checked = TRUE] IN
    IF ~c.loaded
    THEN NextError(c, 403, "PERMISSIONS_NOT_LOADED")
    ELSE IF ~HasRequiredPermission(c.permissions, resource, action)
         THEN NextError(c, 403, "INSUFFICIENT_PERMISSIONS")
         ELSE CallNext(c)

HasPermission ==
    /\ Current(req) = "hasPermission"
    /\ req' = HasPermissionMw(Enter(req, "hasPermission"), req.resource, req.action)
    /\ UNCHANGED <<storeVars, adminVars, limiterVars, sessionVars, handled, told>>

\* Self access granted only as a fallback after the check denied.
SelfOrPermissionMwFallback(r) ==
    LET c == HasPermissionMw(r, "users", "read") IN
    IF c.status = 403 /\ r.user = r.target
    THEN CallNext([r EXCEPT !.checked = TRUE])
    ELSE c

\* The inline middleware of GET /users/:id ("self or admin").
SelfOrPermissionMw(r) ==
    IF r.user = r.target
    THEN CallNext(r)
    ELSE HasPermissionMw(r, "users", "read")

SelfOrPermission ==
    /\ Current(req) = "selfOrPermission"
    /\ req' = SelfOrPermissionMw(Enter(req, "selfOrPermission"))
    /\ UNCHANGED <<storeVars, adminVars, limiterVars, sessionVars, handled, told>>

\* express-validator middleware of a route: passes or ends with 422.
Validate ==
    /\ Current(req) = "validate"
    /\ \E ok \in BOOLEAN :
          req' = IF ok THEN CallNext(Enter(req, "validate"))
                 ELSE NextError(Enter(req, "validate"), 422, "VALIDATION_ERROR")
    /\ UNCHANGED <<storeVars, adminVars, limiterVars, sessionVars, handled, told>>

\* The business handler (controller) of the route is reached.
Handler ==
    /\ Current(req) = "handler"
    /\ req' = [Enter(req, "handler") EXCEPT !.state = "responded", !.status = 200]
    /\ UNCHANGED <<storeVars, adminVars, limiterVars, sessionVars, handled, told>>

(***************************************************************************)
(* Routes (routes/userRoutes.ts, routes/rbacRoutes.ts, routes/authRoutes.ts)*)
(***************************************************************************)
Guarded == <<"verifyToken", "loadPermissions", "hasPermission", "handler">>
GuardedValidated ==
    <<"verifyToken", "loadPermissions", "hasPermission", "validate", "handler">>
SelfOrAdmin == <<"verifyToken", "loadPermissions", "selfOrPermission", "handler">>
Authenticated == <<"verifyToken", "validate", "handler">>
Limited == <<"authLimiter", "validate", "handler">>
Unguarded == <<"validate", "handler">>

NoTarget == "none"

Route(chain, resource, action, targets) ==
    [chain : {chain}, resource : {resource}, action : {action}, target : targets]

Routes ==
    Route(GuardedValidated, "roles", "create", {NoTarget}) \cup
    Route(Guarded, "roles", "read", {NoTarget}) \cup
    Route(GuardedValidated, "permissions", "create", {NoTarget}) \cup
    Route(GuardedValidated, "users", "create", {NoTarget}) \cup
    Route(SelfOrAdmin, "users", "read", Uids) \cup
    Route(GuardedValidated, "users", "update", Uids) \cup
    Route(Authenticated, "none", "none", {NoTarget})

\* A request as it enters a route: nothing attached yet.
NewRequest(route, header, user, loaded, perms) ==
    [chain |-> route.chain, resource |-> route.resource, action |-> route.action,
     target |-> route.target, header |-> header, pos |-> 1,
     user |-> user, loaded |-> loaded, permissions |-> perms,
     state |-> "pending", status |-> 0, error |-> "none",
     loadFault |-> "none", checked |-> FALSE, ran |-> <<>>]

\* routes/authRoutes.ts: POST /login, /refresh-token and /logout.
AuthRoutes ==
    Route(Limited, "none", "none", {NoTarget}) \cup
    Route(Unguarded, "none", "none", {NoTarget}) \cup
    Route(Authenticated, "none", "none", {NoTarget})

\* index.ts: app.use("/api/auth", ...), ("/api/users", ...), ("/api/rbac", ...)
MountedRoutes == AuthRoutes \cup Routes

\* authLimiter as the first middleware of POST /login: the 429 goes to the
\* error handler, an admitted request goes on.
AuthLimiter ==
    /\ Current(req) = "authLimiter"
    /\ RateLimiterMw(1, "counting", "ip1")
    /\ req' = IF hit'[1].st = "rejected"
              THEN NextError(Enter(req, "authLimiter"), 429, "RATE_LIMIT_EXCEEDED")
              ELSE CallNext(Enter(req, "authLimiter"))
    /\ UNCHANGED <<storeVars, adminVars, sessionVars, clock, handled, told>>

RouteRequests ==
    {NewRequest(route, h, NoUser, FALSE, <<>>) : route \in Routes, h \in Headers}

\* The middleware called directly on a prepared request, as the unit and
\* security tests do: hasPermission(resource, action) on a request with or
\* without req.permissions, and loadPermissions on a request without req.user.
AllPermissions == {Permission("p0", r, a) : r \in Resources, a \in Actions}

NoHeaderSent == [present |-> FALSE, text |-> <<>>]

DirectRequests ==
    {NewRequest([chain |-> <<"hasPermission", "handler">>, resource |-> r,
                 action |-> a, target |-> NoTarget],
                NoHeaderSent, "u1", TRUE, ps) :
        r \in Resources, a \in Actions, ps \in SeqUpTo(AllPermissions, MaxPerms)}
    \cup
    {NewRequest([chain |-> <<"hasPermission", "handler">>, resource |-> r,
                 action |-> a, target |-> NoTarget],
                NoHeaderSent, "u1", FALSE, <<>>) :
        r \in Resources, a \in Actions}
    \cup
    {NewRequest([chain |-> <<"loadPermissions", "handler">>, resource |-> "none",
                 action |-> "none", target |-> NoTarget],
                NoHeaderSent, NoUser, FALSE, <<>>)}

(***************************************************************************)
(* Auth controller (controllers/authController.ts): login, refreshToken    *)
(* and logout.  A handler runs from one await to the next in one step; the *)
(* clock is Date.now() in seconds.                                         *)
(***************************************************************************)
Procs == 1..NumProcs
DocIds == 1..MaxTokens
Emails == {"e1", "e2"}
Ips == {"ip1", "ip2"}
ThrottleKeys == Emails \X Ips

\* 30 * 24 * 60 * 60 * 1000 ms
RefreshTtl == 30 * 24 * 60 * 60
\* ATTEMPT_WINDOW_MS = 60 * 60 * 1000 ms
AttemptWindow == 60 * 60
MAX_FAILED_ATTEMPTS == 5
BASE_DELAY_MS == 1000
MAX_DELAY_MS == 10 * 60 * 1000
MaxExponent == 10

\* A refresh token value no login ever returned.
UnknownToken == 0
TokenValues == DocIds \cup {UnknownToken}

\* The identity provider's accounts: auth().getUserByEmail(email).
UidOfEmail(email) == IF email = "e1" THEN "u1" ELSE "u2"

IdleProc ==
    [op |-> "idle", pc |-> "idle", email |-> "none", ip |-> "none",
     uid |-> NoUser, token |-> UnknownToken, allDevices |-> FALSE,
     docs |-> {}, expires |-> 0, at |-> 0, revoked |-> NoUser,
     status |-> 0, code |-> "none", issued |-> UnknownToken,
     seen |-> NoDoc, fault |-> FALSE, delay |-> 0, retryAfter |-> 0,
     lookup |-> "none", counter |-> NoDoc, attempts |-> 0, writes |-> 0,
     faultIn |-> "none", password |-> "none"]

\* No pair has been answered LOGIN_THROTTLED.
NotTold == [k \in ThrottleKeys |-> [at |-> 0, retryAfter |-> 0]]

\* A response is on its way out: the invocation ends before anything else runs.
Responding == \E p \in Procs : proc[p].pc = "done"

Free(p) == proc[p].pc = "idle" /\ ~Responding

Respond(q, status, code) == [q EXCEPT !.pc = "done", !.status = status, !.code = code]

Min(a, b) == IF a <= b THEN a ELSE b

\* A power of two with the exponent one too high.
Pow2Off(n) == 2 ^ (n + 1)

\* Math.pow(2, exponent)
RECURSIVE Pow2(_)
Pow2(n) == IF n = 0 THEN 1 ELSE 2 * Pow2(n - 1)

\* A window test that takes a counter exactly one window old for expired.
ThrottleExpiredInclusive(doc, t) == doc.exists /\ t - doc.lastAttempt >= AttemptWindow

\* calculateLoginThrottle: the delay in ms for a counter document at time t.
ThrottleExpired(doc, t) == doc.exists /\ t - doc.lastAttempt > AttemptWindow

\* The backoff without the cap at MAX_DELAY_MS.
ThrottleDelayUncapped(doc, t) ==
    IF ~doc.exists THEN 0
    ELSE IF ThrottleExpired(doc, t) THEN 0
    ELSE IF doc.count < MAX_FAILED_ATTEMPTS THEN 0
    ELSE BASE_DELAY_MS * Pow2(Min(doc.count - MAX_FAILED_ATTEMPTS, MaxExponent))

ThrottleDelay(doc, t) ==
    IF ~doc.exists THEN 0
    ELSE IF ThrottleExpired(doc, t) THEN 0
    ELSE IF doc.count < MAX_FAILED_ATTEMPTS THEN 0
    ELSE Min(BASE_DELAY_MS * Pow2(Min(doc.count - MAX_FAILED_ATTEMPTS, MaxExponent)),
             MAX_DELAY_MS)

\* recordLoginAttempt(email, ip, false): the counter after one more failure.
FailedAttempt(doc, t) ==
    IF doc.exists
    THEN [doc EXCEPT !.count = doc.count + 1, !.lastAttempt = t]
    ELSE [exists |-> TRUE, count |-> 1, lastAttempt |-> t]

\* calculateLoginThrottle, catch: return BASE_DELAY_MS * 8.
ThrottleFallback == BASE_DELAY_MS * 8

\* A throttle check that lets the base delay through.
ThrottledAboveBase(delay) == delay > BASE_DELAY_MS

\* login: if (throttleDelay > 0)
Throttled(delay) == delay > 0

\* Math.ceil(throttleDelay / 1000)
RetryAfter(delay) == (delay + 999) \div 1000

\* login after calculateLoginThrottle returned delay: the LOGIN_THROTTLED
\* error with retryAfter, or on to the provider.
ThrottleDecision(q, delay) ==
    IF Throttled(delay)
    THEN Respond([q EXCEPT !.delay = delay, !.retryAfter = RetryAfter(delay)],
                 401, "LOGIN_THROTTLED")
    ELSE [q EXCEPT !.delay = delay, !.pc = "l_lookup"]

\* A catch that answers the delay of the counter it could not read as 0.
ThrottleFailureOpen(q) ==
    ThrottleDecision([q EXCEPT !.fault = TRUE, !.faultIn = "calculateLoginThrottle"], 0)

\* calculateLoginThrottle, catch: the fixed delay, whatever the store holds.
ThrottleFailure(q) ==
    ThrottleDecision([q EXCEPT !.fault = TRUE, !.faultIn = "calculateLoginThrottle"],
                     ThrottleFallback)

\* login: calculateLoginThrottle up to the read of the counter document and
\* what follows it without another await.  fault: the get() rejects.
LoginBegin(p, email, ip, fault) ==
    /\ Free(p)
    /\ LET doc == loginThrottling[<<email, ip>>]
           q == [IdleProc EXCEPT !.op = "login", !.email = email, !.ip = ip]
           r == [q EXCEPT !.seen = doc, !.at = IF doc.exists THEN now ELSE 0]
       IN  proc' = [proc EXCEPT ![p] =
              IF fault THEN ThrottleFailure(q)
              ELSE IF ThrottleExpired(doc, now) THEN [r EXCEPT !.pc = "l_reset"]
              ELSE ThrottleDecision(r, ThrottleDelay(doc, now))]
    /\ UNCHANGED <<storeVars, adminVars, limiterVars, req, sweepVars, tokens, loginThrottling, now, nextId, failures, handled, told>>

\* req.body.password: the password of the account, another one, or none.
Passwords == {"correct", "wrong", ""}

\* login from const { email, password } = req.body on: a body without a
\* password is a BadRequestError, which the catch re-throws; with any
\* password the handler goes on to calculateLoginThrottle as above and
\* does not use the password again.
LoginSubmit(p, email, password, ip) ==
    /\ Free(p)
    /\ LET doc == loginThrottling[<<email, ip>>]
           q == [IdleProc EXCEPT !.op = "login", !.email = email, !.ip = ip,
                                 !.password = password]
           r == [q EXCEPT !.seen = doc, !.at = IF doc.exists THEN now ELSE 0]
       IN  proc' = [proc EXCEPT ![p] =
              IF password = "" THEN Respond(q, 400, "MISSING_CREDENTIALS")
              ELSE IF ThrottleExpired(doc, now) THEN [r EXCEPT !.pc = "l_reset"]
              ELSE ThrottleDecision(r, ThrottleDelay(doc, now))]
    /\ UNCHANGED <<storeVars, adminVars, limiterVars, req, sweepVars, tokens, loginThrottling, now, nextId, failures, handled, told>>

\* calculateLoginThrottle: throttlingRef.delete() of a counter outside the
\* window, then return 0.  fault: the delete() rejects.
LoginThrottleReset(p, fault) ==
    /\ ~Responding
    /\ proc[p].pc = "l_reset"
    /\ LET q == proc[p] IN
       IF fault
       THEN /\ proc' = [proc EXCEPT ![p] = ThrottleFailure(q)]
            /\ UNCHANGED loginThrottling
       ELSE /\ proc' = [proc EXCEPT ![p] = ThrottleDecision(q, 0)]
            /\ loginThrottling' = [loginThrottling EXCEPT ![<<q.email, q.ip>>] = NoDoc]
    /\ UNCHANGED <<storeVars, adminVars, limiterVars, req, sweepVars, tokens, now, nextId, failures, handled, told>>

\* What auth().getUserByEmail can answer: the account, a disabled account,
\* an error the catch takes for a Firebase auth error (an instance of
\* FirebaseAuthError or a message holding "Firebase"), or any other error.
Lookups == {"ok", "disabled", "firebase_error", "other_error"}

\* A catch that takes the error thrown for a disabled account for a Firebase
\* auth error and records the failure a second time.
LoginLookupRecaught(p, lookup) ==
    /\ ~Responding
    /\ proc[p].pc = "l_lookup"
    /\ LET q == [proc[p] EXCEPT !.lookup = lookup] IN
       proc' = [proc EXCEPT ![p] =
          CASE lookup = "ok" -> [q EXCEPT !.pc = "l_store", !.uid = UidOfEmail(q.email)]
            [] lookup \in {"disabled", "firebase_error"} ->
                  [q EXCEPT !.pc = "l_record", !.code = "INVALID_CREDENTIALS",
                            !.attempts = IF lookup = "disabled" THEN 1 ELSE 0]
            [] OTHER -> Respond(q, 500, "LOGIN_ERROR")]
    /\ UNCHANGED <<storeVars, adminVars, limiterVars, req, sweepVars, tokens, loginThrottling, now, nextId, failures, handled, told>>

\* login: auth().getUserByEmail and auth().createCustomToken, and the catch
\* for a lookup that rejects.
LoginLookup(p, lookup) ==
    /\ ~Responding
    /\ proc[p].pc = "l_lookup"
    /\ LET q == [proc[p] EXCEPT !.lookup = lookup] IN
       proc' = [proc EXCEPT ![p] =
          CASE lookup = "ok" -> [q EXCEPT !.pc = "l_store", !.uid = UidOfEmail(q.email)]
            [] lookup = "disabled" -> [q EXCEPT !.pc = "l_record", !.code = "ACCOUNT_DISABLED"]
            [] lookup = "firebase_error" ->
                  [q EXCEPT !.pc = "l_record", !.code = "INVALID_CREDENTIALS"]
            [] OTHER -> Respond(q, 500, "LOGIN_ERROR")]
    /\ UNCHANGED <<storeVars, adminVars, limiterVars, req, sweepVars, tokens, loginThrottling, now, nextId, failures, handled, told>>

\* recordLoginAttempt(email, ip, false): the LoginAttempt added to
\* loginAttempts and the read of the counter document.
LoginRecordRead(p) ==
    /\ ~Responding
    /\ proc[p].pc = "l_record"
    /\ proc' = [proc EXCEPT ![p] =
          [@ EXCEPT !.pc = "l_write", !.attempts = @ + 1,
                    !.counter = loginThrottling[<<proc[p].email, proc[p].ip>>]]]
    /\ UNCHANGED <<storeVars, adminVars, limiterVars, req, sweepVars, tokens, loginThrottling, now, nextId, failures, handled, told>>

\* recordLoginAttempt(email, ip, false): counterRef.update of the counter it
\* read, or counterRef.set of a new one; then login throws its 401.  An
\* update of a document that is gone rejects, and the catch of
\* recordLoginAttempt only logs.
RecordLoginAttempt(p) ==
    /\ ~Responding
    /\ proc[p].pc = "l_write"
    /\ LET q == proc[p]
           key == <<q.email, q.ip>>
           lands == ~q.counter.exists \/ loginThrottling[key].exists
       IN  /\ loginThrottling' =
                 IF lands
                 THEN [loginThrottling EXCEPT ![key] = FailedAttempt(q.counter, now)]
                 ELSE loginThrottling
           /\ proc' = [proc EXCEPT ![p] =
                 Respond([q EXCEPT !.writes = IF lands THEN @ + 1 ELSE @], 401, q.code)]
    /\ UNCHANGED <<storeVars, adminVars, limiterVars, req, sweepVars, tokens, now, nextId, handled, told>>

LoginRecordWrite(p) == RecordLoginAttempt(p) /\ UNCHANGED failures

\* The same step, with the failed login added to the tally of its pair.
TalliedRecordWrite(p) ==
    /\ RecordLoginAttempt(p)
    /\ failures' = [failures EXCEPT ![<<proc[p].email, proc[p].ip>>] = @ + 1]

\* login: the new Refresh Token Record.
NewTokenRecord(value, uid, ip, t) ==
    [exists |-> TRUE, token |-> value, userId |-> uid, expires |-> t + RefreshTtl,
     createdAt |-> t, clientIp |-> ip, lastUsed |-> t]

\* login: crypto.randomBytes, uuidv4 and the set() of the new record.
LoginStore(p) ==
    /\ ~Responding
    /\ proc[p].pc = "l_store"
    /\ nextId <= MaxTokens
    /\ tokens' = [tokens EXCEPT ![nextId] =
                     NewTokenRecord(nextId, proc[p].uid, proc[p].ip, now)]
    /\ nextId' = nextId + 1
    /\ proc' = [proc EXCEPT ![p] = [@ EXCEPT !.pc = "l_finish", !.issued = nextId]]
    /\ UNCHANGED <<storeVars, adminVars, limiterVars, req, sweepVars, loginThrottling, now, failures, handled, told>>

\* A successful login that leaves the counter in place.
LoginFinishKeepCounter(p) ==
    /\ ~Responding
    /\ proc[p].pc = "l_finish"
    /\ proc' = [proc EXCEPT ![p] = Respond(@, 200, "none")]
    /\ UNCHANGED <<storeVars, adminVars, limiterVars, req, sweepVars, tokens, loginThrottling, now, nextId, failures, handled, told>>

\* login: recordLoginAttempt(success), clearThrottling, and the response.
LoginFinish(p) ==
    /\ ~Responding
    /\ proc[p].pc = "l_finish"
    /\ loginThrottling' =
          [loginThrottling EXCEPT ![<<proc[p].email, proc[p].ip>>] = NoDoc]
    /\ proc' = [proc EXCEPT ![p] = Respond(@, 200, "none")]
    /\ UNCHANGED <<storeVars, adminVars, limiterVars, req, sweepVars, tokens, now, nextId, failures, handled, told>>

\* cleanupExpiredTokens between two runs.
SweepIdle == [pc |-> "idle", docs |-> {}, at |-> 0, thrown |-> FALSE]

\* where("token", "==", value): the documents holding the value.
DocsWithToken(value) == {d \in DocIds : tokens[d].exists /\ tokens[d].token = value}

\* where("userId", "==", uid)
DocsOfUser(uid) == {d \in DocIds : tokens[d].exists /\ tokens[d].userId = uid}

\* The expiry test taking the instant of expiry for expired.
ExpiredInclusive(data, t) == data.expires <= t

\* tokenData.expires < Date.now()
Expired(data, t) == data.expires < t

\* refreshToken: the lookup by value and the expiry test.
RefreshQuery(p, value, ip) ==
    /\ Free(p)
    /\ LET q == [IdleProc EXCEPT !.op = "refresh", !.token = value, !.ip = ip,
                                 !.at = now]
           hits == DocsWithToken(value)
       IN  IF hits = {}
           THEN proc' = [proc EXCEPT ![p] = Respond(q, 401, "INVALID_REFRESH_TOKEN")]
           ELSE \E d \in hits :
                   proc' = [proc EXCEPT ![p] =
                       [q EXCEPT !.docs = {d}, !.uid = tokens[d].userId,
                                 !.expires = tokens[d].expires,
                                 !.pc = IF Expired(tokens[d], now)
                                        THEN "r_delete" ELSE "r_update"]]
    /\ UNCHANGED <<storeVars, adminVars, limiterVars, req, sweepVars, tokens, loginThrottling, now, nextId, failures, handled, told>>

\* refreshToken: tokenDoc.ref.delete() of the expired record, then the error.
RefreshDeleteExpired(p) ==
    /\ ~Responding
    /\ proc[p].pc = "r_delete"
    /\ tokens' = [d \in DocIds |-> IF d \in proc[p].docs THEN NoDoc ELSE tokens[d]]
    /\ proc' = [proc EXCEPT ![p] = Respond(@, 401, "REFRESH_TOKEN_EXPIRED")]
    /\ UNCHANGED <<storeVars, adminVars, limiterVars, req, sweepVars, loginThrottling, now, nextId, failures, handled, told>>

\* A refresh that also slides the expiry of the record.
RefreshUpdateSliding(p) ==
    /\ ~Responding
    /\ proc[p].pc = "r_update"
    /\ LET d == CHOOSE x \in proc[p].docs : TRUE IN
       IF tokens[d].exists
       THEN /\ tokens' = [tokens EXCEPT ![d].lastUsed = now,
                                        ![d].expires = now + RefreshTtl]
            /\ proc' = [proc EXCEPT ![p] = Respond(@, 200, "none")]
       ELSE /\ proc' = [proc EXCEPT ![p] = Respond(@, 500, "REFRESH_ERROR")]
            /\ UNCHANGED tokens
    /\ UNCHANGED <<storeVars, adminVars, limiterVars, req, sweepVars, loginThrottling, now, nextId, failures, handled, told>>

\* A refresh that writes lastUsed with set(..., {merge: true}), which makes
\* the document when it is gone.
RefreshUpdateUpsert(p) ==
    /\ ~Responding
    /\ proc[p].pc = "r_update"
    /\ LET d == CHOOSE x \in proc[p].docs : TRUE IN
       /\ tokens' = [tokens EXCEPT ![d] =
              IF @.exists THEN [@ EXCEPT !.lastUsed = now]
              ELSE [NewTokenRecord(proc[p].token, proc[p].uid, proc[p].ip, now)
                       EXCEPT !.expires = proc[p].expires]]
       /\ proc' = [proc EXCEPT ![p] = Respond(@, 200, "none")]
    /\ UNCHANGED <<storeVars, adminVars, limiterVars, req, sweepVars, loginThrottling, now, nextId, failures, handled, told>>

\* refreshToken: createCustomToken, tokenDoc.ref.update({lastUsed}) and the
\* response; update() of a document that is gone rejects.
RefreshUpdate(p) ==
    /\ ~Responding
    /\ proc[p].pc = "r_update"
    /\ LET d == CHOOSE x \in proc[p].docs : TRUE IN
       IF tokens[d].exists
       THEN /\ tokens' = [tokens EXCEPT ![d].lastUsed = now]
            /\ proc' = [proc EXCEPT ![p] = Respond(@, 200, "none")]
       ELSE /\ proc' = [proc EXCEPT ![p] = Respond(@, 500, "REFRESH_ERROR")]
            /\ UNCHANGED tokens
    /\ UNCHANGED <<storeVars, adminVars, limiterVars, req, sweepVars, loginThrottling, now, nextId, failures, handled, told>>

\* orderBy("lastUsed", "desc").limit(1) over the user's records.
MostRecentlyUsed(uid) ==
    {d \in DocsOfUser(uid) :
        \A e \in DocsOfUser(uid) : tokens[e].lastUsed <= tokens[d].lastUsed}

\* The specific-token query without the userId filter.
LogoutQuerySpecificAnyOwner(p, uid, value) ==
    /\ Free(p)
    /\ value # UnknownToken
    /\ LET q == [IdleProc EXCEPT !.op = "logout", !.uid = uid, !.token = value]
           hits == DocsWithToken(value)
       IN  IF hits = {}
           THEN proc' = [proc EXCEPT ![p] = [q EXCEPT !.pc = "o_revoke"]]
           ELSE \E d \in hits :
                   proc' = [proc EXCEPT ![p] =
                               [q EXCEPT !.docs = {d}, !.pc = "o_delete"]]
    /\ UNCHANGED <<storeVars, adminVars, limiterVars, req, sweepVars, tokens, loginThrottling, now, nextId, failures, handled, told>>

\* logout: the query of the mode chosen by the body.
LogoutQuerySpecific(p, uid, value) ==
    /\ Free(p)
    /\ value # UnknownToken
    /\ LET q == [IdleProc EXCEPT !.op = "logout", !.uid = uid, !.token = value]
           hits == DocsWithToken(value) \cap DocsOfUser(uid)
       IN  IF hits = {}
           THEN proc' = [proc EXCEPT ![p] = [q EXCEPT !.pc = "o_revoke"]]
           ELSE \E d \in hits :
                   proc' = [proc EXCEPT ![p] =
                               [q EXCEPT !.docs = {d}, !.pc = "o_delete"]]
    /\ UNCHANGED <<storeVars, adminVars, limiterVars, req, sweepVars, tokens, loginThrottling, now, nextId, failures, handled, told>>

LogoutQueryAll(p, uid) ==
    /\ Free(p)
    /\ proc' = [proc EXCEPT ![p] =
          [IdleProc EXCEPT !.op = "logout", !.uid = uid, !.allDevices = TRUE,
                           !.docs = DocsOfUser(uid), !.pc = "o_delete"]]
    /\ UNCHANGED <<storeVars, adminVars, limiterVars, req, sweepVars, tokens, loginThrottling, now, nextId, failures, handled, told>>

LogoutQueryRecent(p, uid) ==
    /\ Free(p)
    /\ LET q == [IdleProc EXCEPT !.op = "logout", !.uid = uid]
           hits == MostRecentlyUsed(uid)
       IN  IF hits = {}
           THEN proc' = [proc EXCEPT ![p] = [q EXCEPT !.pc = "o_revoke"]]
           ELSE \E d \in hits :
                   proc' = [proc EXCEPT ![p] =
                               [q EXCEPT !.docs = {d}, !.pc = "o_delete"]]
    /\ UNCHANGED <<storeVars, adminVars, limiterVars, req, sweepVars, tokens, loginThrottling, now, nextId, failures, handled, told>>

\* logout: ref.delete() of the record found, or batch.commit() of the
\* deletes of every record the query returned.
LogoutDelete(p) ==
    /\ ~Responding
    /\ proc[p].pc = "o_delete"
    /\ tokens' = [d \in DocIds |-> IF d \in proc[p].docs THEN NoDoc ELSE tokens[d]]
    /\ proc' = [proc EXCEPT ![p] = [@ EXCEPT !.pc = "o_revoke"]]
    /\ UNCHANGED <<storeVars, adminVars, limiterVars, req, sweepVars, loginThrottling, now, nextId, failures, handled, told>>

\* A logout that answers without the revocation.
LogoutRevokeSkipped(p) ==
    /\ ~Responding
    /\ proc[p].pc = "o_revoke"
    /\ proc' = [proc EXCEPT ![p] = Respond(@, 200, "none")]
    /\ UNCHANGED <<storeVars, adminVars, limiterVars, req, sweepVars, tokens, loginThrottling, now, nextId, failures, handled, told>>

\* logout: auth().revokeRefreshTokens(userId) and the response.
LogoutRevoke(p) ==
    /\ ~Responding
    /\ proc[p].pc = "o_revoke"
    /\ proc' = [proc EXCEPT ![p] =
          Respond([@ EXCEPT !.revoked = proc[p].uid], 200, "none")]
    /\ UNCHANGED <<storeVars, adminVars, limiterVars, req, sweepVars, tokens, loginThrottling, now, nextId, failures, handled, told>>

\* The error of the last branch of each controller's catch.
ServerErrorOf(op) ==
    CASE op = "login" -> "LOGIN_ERROR"
      [] op = "refresh" -> "REFRESH_ERROR"
      [] OTHER -> "LOGOUT_ERROR"

Failed(q, where) == [q EXCEPT !.fault = TRUE, !.faultIn = where]

\* refreshToken: the query of the token rejects.
RefreshQueryFails(p, value, ip) ==
    /\ Free(p)
    /\ proc' = [proc EXCEPT ![p] =
          Respond(Failed([IdleProc EXCEPT !.op = "refresh", !.token = value,
                                          !.ip = ip, !.at = now], "refreshToken"),
                  500, ServerErrorOf("refresh"))]
    /\ UNCHANGED <<storeVars, adminVars, limiterVars, req, sweepVars, tokens, loginThrottling, now, nextId, failures, handled, told>>

\* logout: the query of the chosen mode rejects.
LogoutQueryFails(p, uid) ==
    /\ Free(p)
    /\ proc' = [proc EXCEPT ![p] =
          Respond(Failed([IdleProc EXCEPT !.op = "logout", !.uid = uid], "logout"),
                  500, ServerErrorOf("logout"))]
    /\ UNCHANGED <<storeVars, adminVars, limiterVars, req, sweepVars, tokens, loginThrottling, now, nextId, failures, handled, told>>

\* The set() of login, the delete() or update() of refreshToken, the
\* delete() or batch.commit() of logout rejects: the controller's catch
\* rethrows it as its InternalServerError.
StoreWrites == {"l_store", "r_delete", "r_update", "o_delete"}

StoreWriteFails(p) ==
    /\ ~Responding
    /\ proc[p].pc \in StoreWrites
    /\ proc' = [proc EXCEPT ![p] =
          Respond(Failed(@, IF @.op = "login" THEN "login"
                            ELSE IF @.op = "refresh" THEN "refreshToken" ELSE "logout"),
                  500, ServerErrorOf(@.op))]
    /\ UNCHANGED <<storeVars, adminVars, limiterVars, req, sweepVars, tokens, loginThrottling, now, nextId, failures, handled, told>>

\* recordLoginAttempt(failure): loginAttempts.add, the get or the write of
\* the counter rejects; its catch logs, and login goes on to its 401.
RecordAttemptFails(p) ==
    /\ ~Responding
    /\ proc[p].pc \in {"l_record", "l_write"}
    /\ proc' = [proc EXCEPT ![p] = Respond(Failed(@, "recordLoginAttempt"), 401, @.code)]
    /\ UNCHANGED <<storeVars, adminVars, limiterVars, req, sweepVars, tokens, loginThrottling, now, nextId, failures, handled, told>>

\* clearThrottling: the delete of the counter rejects; its catch logs, and
\* login answers 200 with the counter left in place.
ClearThrottlingFails(p) ==
    /\ ~Responding
    /\ proc[p].pc = "l_finish"
    /\ proc' = [proc EXCEPT ![p] = Respond(Failed(@, "clearThrottling"), 200, "none")]
    /\ UNCHANGED <<storeVars, adminVars, limiterVars, req, sweepVars, tokens, loginThrottling, now, nextId, failures, handled, told>>

\* The awaits of login, refreshToken and logout after their first one.
AwaitedCalls ==
    {"l_reset", "l_lookup", "l_store", "l_record", "l_write", "l_finish",
     "r_delete", "r_update", "o_delete", "o_revoke"}

\* An invocation left at an await whose promise never settles.
Suspended(q, where) == [q EXCEPT !.pc = "stalled", !.faultIn = where]

\* The provider or store call an invocation is waiting for never answers.
\* The controllers await every call directly, with no timer armed, so the
\* invocation stays at the await and sends nothing.
CallNeverAnswers(p) ==
    /\ ~Responding
    /\ proc[p].pc \in AwaitedCalls
    /\ proc' = [proc EXCEPT ![p] = Suspended(@, @.pc)]
    /\ UNCHANGED <<storeVars, adminVars, limiterVars, req, sweepVars, tokens, loginThrottling, now, nextId, failures, handled, told>>

\* The same for the first store call of a controller: the get() of
\* calculateLoginThrottle, the query of refreshToken, the query of logout.
FirstCallNeverAnswers(p, op) ==
    /\ Free(p)
    /\ proc' = [proc EXCEPT ![p] =
          Suspended([IdleProc EXCEPT !.op = op],
                    CASE op = "login" -> "calculateLoginThrottle"
                      [] op = "refresh" -> "refreshToken"
                      [] OTHER -> "logout")]
    /\ UNCHANGED <<storeVars, adminVars, limiterVars, req, sweepVars, tokens, loginThrottling, now, nextId, failures, handled, told>>

\* The response has been sent: the invocation is over.
Return(p) ==
    /\ proc[p].pc = "done"
    /\ proc' = [proc EXCEPT ![p] = IdleProc]
    /\ UNCHANGED <<storeVars, adminVars, limiterVars, req, sweepVars, tokens, loginThrottling, now, nextId, failures, handled, told>>

\* The response leaves, and the client of a throttled login keeps the time
\* and the retryAfter it was told.
ReturnTold(p) ==
    /\ proc[p].pc = "done"
    /\ proc' = [proc EXCEPT ![p] = IdleProc]
    /\ told' = IF proc[p].op = "login" /\ proc[p].code = "LOGIN_THROTTLED"
               THEN [told EXCEPT ![<<proc[p].email, proc[p].ip>>] =
                        [at |-> now, retryAfter |-> proc[p].retryAfter]]
               ELSE told
    /\ UNCHANGED <<storeVars, adminVars, limiterVars, req, sweepVars, tokens, loginThrottling, now, nextId, failures, handled>>

\* Date.now() moving on by one second, for a few seconds.
TickSecond ==
    /\ ~Responding
    /\ now < MaxWait
    /\ now' = now + 1
    /\ UNCHANGED <<storeVars, adminVars, limiterVars, req, sweepVars, tokens, loginThrottling, nextId, proc, failures, handled, told>>

\* Time passes: by a second, or by the lifetime of a refresh token.
\* cleanupExpiredTokens: const now = Date.now(); the query expires < now.
\* A run that finds nothing commits an empty batch, which changes nothing.
SweepQueryInclusive ==
    /\ ~Responding
    /\ sweep.pc = "idle"
    /\ LET expired == {d \in DocIds : tokens[d].exists /\ tokens[d].expires <= now}
       IN  sweep' = IF expired = {} THEN SweepIdle
                    ELSE [SweepIdle EXCEPT !.pc = "commit", !.docs = expired, !.at = now]
    /\ UNCHANGED <<storeVars, adminVars, limiterVars, req, tokens, loginThrottling, now, nextId, proc, swept, failures, handled, told>>

SweepQuery ==
    /\ ~Responding
    /\ sweep.pc = "idle"
    /\ LET expired == {d \in DocIds : tokens[d].exists /\ tokens[d].expires < now}
       IN  sweep' = IF expired = {} THEN SweepIdle
                    ELSE [SweepIdle EXCEPT !.pc = "commit", !.docs = expired, !.at = now]
    /\ UNCHANGED <<storeVars, adminVars, limiterVars, req, tokens, loginThrottling, now, nextId, proc, swept, failures, handled, told>>

\* cleanupExpiredTokens: batch.commit() of the deletes, then the log line.
SweepCommit ==
    /\ ~Responding
    /\ sweep.pc = "commit"
    /\ tokens' = [d \in DocIds |-> IF d \in sweep.docs THEN NoDoc ELSE tokens[d]]
    /\ swept' = swept \cup {d \in sweep.docs : tokens[d].exists}
    /\ sweep' = SweepIdle
    /\ UNCHANGED <<storeVars, adminVars, limiterVars, req, loginThrottling, now, nextId, proc, failures, handled, told>>

\* cleanupExpiredTokens: batch.commit() rejects; the catch logs the error and
\* the task ends without throwing.  (A query that rejects ends the same way,
\* with nothing to undo.)
SweepFails ==
    /\ ~Responding
    /\ sweep.pc = "commit"
    /\ sweep' = SweepIdle
    /\ UNCHANGED <<storeVars, adminVars, limiterVars, req, tokens, loginThrottling, now, nextId, proc, swept, failures, handled, told>>

\* Date.now() moving on by the attempt window, then by single seconds.
TickWindow(d) ==
    /\ ~Responding
    /\ IF d = 1 THEN now >= AttemptWindow /\ now % AttemptWindow < MaxTicks
                ELSE now \div AttemptWindow < MaxTicks
    /\ now' = now + d
    /\ UNCHANGED <<storeVars, adminVars, limiterVars, req, sweepVars, tokens, loginThrottling, nextId, proc, failures, handled, told>>

\* Date.now() moving on: by the lifetime of a refresh token, then by single
\* seconds around the instant of expiry.
Tick(d) ==
    /\ ~Responding
    /\ IF d = 1 THEN now >= RefreshTtl /\ now % RefreshTtl < MaxTicks
                ELSE now \div RefreshTtl < MaxTicks
    /\ now' = now + d
    /\ UNCHANGED <<storeVars, adminVars, limiterVars, req, sweepVars, tokens, loginThrottling, nextId, proc, failures, handled, told>>

(***************************************************************************)
(* The store contents a request may meet.                                  *)
(***************************************************************************)
PermissionDoc(id, resource, action) ==
    [exists |-> TRUE, id |-> id, resource |-> resource, action |-> action]

RoleDoc(id, perms) == [exists |-> TRUE, id |-> id, permissions |-> perms]

Assignment(uid, roleIds) == [exists |-> TRUE, userId |-> uid, roleIds |-> roleIds]

SeededPermissions ==
    [p \in PermIds |->
        CASE p = "p1" -> PermissionDoc("p1", "users", "read")
          [] p = "p2" -> PermissionDoc("p2", "roles", "manage")
          [] p = "p3" -> PermissionDoc("p3", "*", "manage")
          [] OTHER -> NoDoc]

RolePermissionLists(r) ==
    IF r = "r1"
    THEN {<<>>, <<"p1">>, <<"p2", "p1">>, <<"p1", "p4", "p1">>, <<"p3">>}
    ELSE {<<"p2", "p1">>, <<"p3">>}

RoleStores ==
    {f \in [RoleIds -> {NoDoc} \cup
                {RoleDoc(r, l) : r \in RoleIds, l \in RolePermissionLists("r1")}] :
        \A r \in RoleIds :
            f[r].exists => f[r].id = r /\ f[r].permissions \in RolePermissionLists(r)}

AssignmentStores ==
    {f \in [Uids -> {NoDoc} \cup
                {Assignment(u, l) : u \in Uids, l \in SeqUpTo(RoleIds, MaxAssigned)}] :
        /\ f["u1"].exists => f["u1"].userId = "u1"
        /\ ~f["u2"].exists}

(***************************************************************************)
(* RoleModel: runTransaction, addPermissionsToRole and                     *)
(* removePermissionsFromRole.  A Firestore transaction is modelled by its  *)
(* contract: the body reads, and the commit goes through only when what    *)
(* it read is still what is stored; otherwise it fails with ABORTED.       *)
(***************************************************************************)
\* maxAttempts = 5
DefaultMaxAttempts == 5

RoleNames == {"n1", "n2"}

NamedRole(id, name, perms) == [name |-> name] @@ RoleDoc(id, perms)

\* The permissionIds handed to a call.
PermissionIdLists == {<<"p1">>, <<"p2">>}

\* Errors of the store, by the word their message carries.
TxnErrors == {"ABORTED", "UNAVAILABLE", "DEADLINE_EXCEEDED", "PERMISSION_DENIED"}

\* A wrapper that retries after every error.
IsRetryableAlways(e) == TRUE

\* error.message.includes("ABORTED") || ("DEADLINE_EXCEEDED") || ("UNAVAILABLE")
IsRetryable(e) == e \in {"ABORTED", "DEADLINE_EXCEEDED", "UNAVAILABLE"}

\* Math.min(1000 * (Math.pow(2, attempts) - 1), 10000)
BackoffMs(attempts) == Min(1000 * (Pow2(attempts) - 1), 10000)

IdleCall ==
    [op |-> "idle", pc |-> "idle", role |-> "none", ids |-> <<>>,
     attempts |-> 0, executed |-> 0, snapshot |-> NoDoc, lastError |-> "none",
     backoffMs |-> 0, status |-> 0, kind |-> "none",
     code |-> "none", wrote |-> FALSE, name |-> "none",
     pair |-> <<"none", "none">>, created |-> "none",
     errorIfNotFound |-> TRUE]

AdminIdle == call = [c \in Procs |-> IdleCall]

\* A call is returning: it is back at its caller before anything else runs.
Returning == \E c \in Procs : call[c].pc = "done"

\* A grant that appends every given id.
AddPermissionsUnfiltered(perms, ids) == perms \o ids

\* [...role.permissions, ...newPermissions]
AddPermissions(perms, ids) ==
    LET New(i) == i \notin Range(perms) IN perms \o SelectSeq(ids, New)

\* role.permissions.filter((id) => !permissionsToRemove.has(id))
RemovePermissions(perms, ids) ==
    LET Keep(i) == i \notin Range(ids) IN SelectSeq(perms, Keep)

TxnEffect(op, perms, ids) ==
    IF op = "add" THEN AddPermissions(perms, ids) ELSE RemovePermissions(perms, ids)

\* The catch of addPermissionsToRole / removePermissionsFromRole: a
\* NotFoundError goes on as it is, anything else becomes the DatabaseError
\* ROLE_PERMISSION_UPDATE_ERROR.
RoleUpdateCatch(q, kind) ==
    IF kind = "NotFoundError"
    THEN [q EXCEPT !.pc = "done", !.status = 404, !.kind = "NotFoundError",
                   !.code = "ROLE_NOT_FOUND"]
    ELSE [q EXCEPT !.pc = "done", !.status = 500, !.kind = "DatabaseError",
                   !.code = "ROLE_PERMISSION_UPDATE_ERROR"]

\* The catch of runTransaction for an error of db().runTransaction, the
\* error the body threw included: a retryable error with attempts left
\* goes to the backoff, every other error becomes the DatabaseError
\* TRANSACTION_FAILED, which the caller's catch receives.
RunTransactionCatch(q, e) ==
    IF ~IsRetryable(e) \/ q.attempts >= DefaultMaxAttempts
    THEN RoleUpdateCatch([q EXCEPT !.lastError = e], "DatabaseError")
    ELSE [q EXCEPT !.pc = "t_backoff", !.lastError = e,
                   !.backoffMs = BackoffMs(q.attempts)]

\* addPermissionsToRole / removePermissionsFromRole is called.
BeginRoleUpdate(c, op, r, ids) ==
    /\ ~Returning
    /\ call[c].pc = "idle"
    /\ call' = [call EXCEPT ![c] =
          [IdleCall EXCEPT !.op = op, !.role = r, !.ids = ids, !.pc = "t_loop"]]
    /\ UNCHANGED <<storeVars, limiterVars, req, sessionVars, handled, told>>

\* runTransaction: attempts++, db().runTransaction(callback); the body runs
\* up to its transaction.get and the test of roleDoc.exists.
RunTransaction(c) ==
    /\ ~Returning
    /\ call[c].pc = "t_loop"
    /\ call[c].attempts < DefaultMaxAttempts
    /\ LET q == [call[c] EXCEPT !.attempts = @ + 1, !.executed = @ + 1,
                                !.snapshot = roles[call[c].role],
                                !.lastError = "none"]
       IN  call' = [call EXCEPT ![c] =
               IF ~q.snapshot.exists
               THEN RunTransactionCatch(q, "Role not found")
               ELSE [q EXCEPT !.pc = "t_commit"]]
    /\ UNCHANGED <<storeVars, limiterVars, req, sessionVars, handled, told>>

\* A commit that does not check what the body read.
TxnCommitBlind(c, outcome) ==
    /\ ~Returning
    /\ call[c].pc = "t_commit"
    /\ outcome = "ok"
    /\ LET q == call[c]
           r == q.role
           perms == TxnEffect(q.op, q.snapshot.permissions, q.ids)
       IN  /\ roles' = [roles EXCEPT ![r] =
                          IF perms # q.snapshot.permissions
                          THEN [q.snapshot EXCEPT !.permissions = perms] ELSE @]
           /\ call' = [call EXCEPT ![c] =
                  [q EXCEPT !.pc = "done", !.status = 200,
                            !.wrote = perms # q.snapshot.permissions]]
    /\ UNCHANGED <<userRoles, permissions, limiterVars, req, sessionVars, handled, told>>

\* The rest of the body and the commit of the transaction: the update is
\* written when the role is still as the body read it; the store may also
\* fail the commit.
TxnCommit(c, outcome) ==
    /\ ~Returning
    /\ call[c].pc = "t_commit"
    /\ LET q == call[c]
           r == q.role
           perms == TxnEffect(q.op, q.snapshot.permissions, q.ids)
       IN  /\ outcome = "ok" => roles[r] = q.snapshot
           /\ IF outcome = "ok"
              THEN /\ roles' = [roles EXCEPT ![r] =
                                  IF perms # q.snapshot.permissions
                                  THEN [q.snapshot EXCEPT !.permissions = perms] ELSE @]
                   /\ call' = [call EXCEPT ![c] =
                          [q EXCEPT !.pc = "done", !.status = 200,
                                    !.wrote = perms # q.snapshot.permissions]]
              ELSE /\ roles' = roles
                   /\ call' = [call EXCEPT ![c] = RunTransactionCatch(q, outcome)]
    /\ UNCHANGED <<userRoles, permissions, limiterVars, req, sessionVars, handled, told>>

\* setTimeout(resolve, backoffMs) has fired: the loop goes round.
TxnBackoff(c) ==
    /\ ~Returning
    /\ call[c].pc = "t_backoff"
    /\ call' = [call EXCEPT ![c] = [@ EXCEPT !.pc = "t_loop"]]
    /\ UNCHANGED <<storeVars, limiterVars, req, sessionVars, handled, told>>

\* The call has returned or thrown.
CallReturn(c) ==
    /\ call[c].pc = "done"
    /\ call' = [call EXCEPT ![c] = IdleCall]
    /\ UNCHANGED <<storeVars, limiterVars, req, sessionVars, handled, told>>

\* where("name", "==", role.name)
RolesNamed(name) == {r \in RoleIds : roles[r].exists /\ roles[r].name = name}

\* where("resource", "==", ...).where("action", "==", ...)
PermissionsFor(pair) ==
    {p \in PermIds : permissions[p].exists /\ permissions[p].resource = pair[1]
                     /\ permissions[p].action = pair[2]}

\* createRole: the query for a role of the name, and the ConflictError.
CreateRoleQuery(c, name) ==
    /\ ~Returning
    /\ call[c].pc = "idle"
    /\ LET q == [IdleCall EXCEPT !.op = "createRole", !.name = name] IN
       call' = [call EXCEPT ![c] =
           IF RolesNamed(name) # {}
           THEN [q EXCEPT !.pc = "done", !.status = 409, !.kind = "ConflictError",
                          !.code = "ROLE_NAME_EXISTS"]
           ELSE [q EXCEPT !.pc = "c_create"]]
    /\ UNCHANGED <<storeVars, limiterVars, req, sessionVars, handled, told>>

\* createRole: createDocument("roles", role), under an id of its own.
CreateRoleWrite(c) ==
    /\ ~Returning
    /\ call[c].pc = "c_create" /\ call[c].op = "createRole"
    /\ \E id \in RoleIds :
          /\ ~roles[id].exists
          /\ roles' = [roles EXCEPT ![id] = NamedRole(id, call[c].name, <<>>)]
          /\ call' = [call EXCEPT ![c] =
                 [@ EXCEPT !.pc = "done", !.status = 200, !.wrote = TRUE,
                           !.created = id]]
    /\ UNCHANGED <<userRoles, permissions, limiterVars, req, sessionVars, handled, told>>

\* createPermission: the query for a permission of the pair.
CreatePermissionQuery(c, pair) ==
    /\ ~Returning
    /\ call[c].pc = "idle"
    /\ LET q == [IdleCall EXCEPT !.op = "createPermission", !.pair = pair] IN
       call' = [call EXCEPT ![c] =
           IF PermissionsFor(pair) # {}
           THEN [q EXCEPT !.pc = "done", !.status = 409, !.kind = "ConflictError",
                          !.code = "PERMISSION_EXISTS"]
           ELSE [q EXCEPT !.pc = "c_create"]]
    /\ UNCHANGED <<storeVars, limiterVars, req, sessionVars, handled, told>>

\* createPermission: createDocument("permissions", permission).
CreatePermissionWrite(c) ==
    /\ ~Returning
    /\ call[c].pc = "c_create" /\ call[c].op = "createPermission"
    /\ \E id \in PermIds :
          /\ ~permissions[id].exists
          /\ permissions' = [permissions EXCEPT ![id] =
                                PermissionDoc(id, call[c].pair[1], call[c].pair[2])]
          /\ call' = [call EXCEPT ![c] =
                 [@ EXCEPT !.pc = "done", !.status = 200, !.wrote = TRUE,
                           !.created = id]]
    /\ UNCHANGED <<userRoles, roles, limiterVars, req, sessionVars, handled, told>>

(***************************************************************************)
(* utils/database.ts: deleteDocument, here on the roles collection.        *)
(***************************************************************************)
\* The catch of deleteDocument: a NotFoundError goes on as it is, anything
\* else becomes the DatabaseError DOCUMENT_DELETE_ERROR.
DeleteCatch(q, kind) ==
    IF kind = "NotFoundError"
    THEN [q EXCEPT !.pc = "done", !.status = 404, !.kind = "NotFoundError",
                   !.code = "DOCUMENT_NOT_FOUND"]
    ELSE [q EXCEPT !.pc = "done", !.status = 500, !.kind = "DatabaseError",
                   !.code = "DOCUMENT_DELETE_ERROR", !.lastError = kind]

\* A deleteDocument that takes every missing document for an error.
DeleteDocumentGetStrict(c, id, errorIfNotFound, fault) ==
    /\ ~Returning
    /\ call[c].pc = "idle"
    /\ LET q == [IdleCall EXCEPT !.op = "delete", !.role = id,
                                 !.errorIfNotFound = errorIfNotFound,
                                 !.snapshot = roles[id]]
       IN  call' = [call EXCEPT ![c] =
               IF fault THEN DeleteCatch(q, "UNAVAILABLE")
               ELSE IF ~q.snapshot.exists
                    THEN DeleteCatch(q, "NotFoundError")
                    ELSE [q EXCEPT !.pc = "d_delete"]]
    /\ UNCHANGED <<storeVars, limiterVars, req, sessionVars, handled, told>>

\* deleteDocument: docRef.get() and if (!doc.exists && errorIfNotFound).
\* fault: the get() rejects.
DeleteDocumentGet(c, id, errorIfNotFound, fault) ==
    /\ ~Returning
    /\ call[c].pc = "idle"
    /\ LET q == [IdleCall EXCEPT !.op = "delete", !.role = id,
                                 !.errorIfNotFound = errorIfNotFound,
                                 !.snapshot = roles[id]]
       IN  call' = [call EXCEPT ![c] =
               IF fault THEN DeleteCatch(q, "UNAVAILABLE")
               ELSE IF ~q.snapshot.exists /\ errorIfNotFound
                    THEN DeleteCatch(q, "NotFoundError")
                    ELSE [q EXCEPT !.pc = "d_delete"]]
    /\ UNCHANGED <<storeVars, limiterVars, req, sessionVars, handled, told>>

\* deleteDocument: docRef.delete(), which the store accepts for a document
\* that is not there.  fault: the delete() rejects.
DeleteDocumentDelete(c, fault) ==
    /\ ~Returning
    /\ call[c].pc = "d_delete"
    /\ LET q == call[c] IN
       IF fault
       THEN /\ call' = [call EXCEPT ![c] = DeleteCatch(q, "UNAVAILABLE")]
            /\ roles' = roles
       ELSE /\ roles' = [roles EXCEPT ![q.role] = NoDoc]
            /\ call' = [call EXCEPT ![c] =
                   [q EXCEPT !.pc = "done", !.status = 200,
                             !.wrote = roles[q.role].exists]]
    /\ UNCHANGED <<userRoles, permissions, limiterVars, req, sessionVars, handled, told>>

EmptyStore ==
    /\ userRoles = [u \in Uids |-> NoDoc]
    /\ roles = [r \in RoleIds |-> NoDoc]
    /\ permissions = [p \in PermIds |-> NoDoc]

SessionIdle ==
    /\ LimiterIdle
    /\ AdminIdle
    /\ handled = NothingThrown
    /\ told = NotTold
    /\ failures = [k \in ThrottleKeys |-> 0]
    /\ tokens = [d \in DocIds |-> NoDoc]
    /\ loginThrottling = [k \in ThrottleKeys |-> NoDoc]
    /\ now = 0
    /\ nextId = 1
    /\ proc = [p \in Procs |-> IdleProc]
    /\ sweep = SweepIdle
    /\ swept = {}

Init ==
    /\ SessionIdle
    /\ \/ /\ userRoles \in AssignmentStores
          /\ roles \in RoleStores
          /\ permissions = SeededPermissions
          /\ req \in RouteRequests
       \/ /\ EmptyStore
          /\ req \in DirectRequests

Next ==
    \/ VerifyToken
    \/ LoadPermissions
    \/ HasPermission
    \/ SelfOrPermission
    \/ Validate
    \/ Handler

Spec == Init /\ [][Next]_vars


\* The controller under logins that the provider answers, refreshes and
\* logouts of every mode, interleaved at their awaits.
SessionInit ==
    /\ SessionIdle
    /\ EmptyStore
    /\ req = NewRequest([chain |-> <<>>, resource |-> "none", action |-> "none",
                         target |-> NoTarget], NoHeaderSent, NoUser, FALSE, <<>>)

SessionNext ==
    \/ \E p \in Procs, e \in Emails : LoginBegin(p, e, "ip1", FALSE)
    \/ \E p \in Procs : LoginLookup(p, "ok")
    \/ \E p \in Procs : LoginStore(p)
    \/ \E p \in Procs : LoginFinish(p)
    \/ \E p \in Procs, v \in TokenValues, ip \in Ips : RefreshQuery(p, v, ip)
    \/ \E p \in Procs : RefreshDeleteExpired(p)
    \/ \E p \in Procs : RefreshUpdate(p)
    \/ \E p \in Procs, u \in Uids, v \in DocIds : LogoutQuerySpecific(p, u, v)
    \/ \E p \in Procs, u \in Uids : LogoutQueryAll(p, u)
    \/ \E p \in Procs, u \in Uids : LogoutQueryRecent(p, u)
    \/ \E p \in Procs : LogoutDelete(p)
    \/ \E p \in Procs : LogoutRevoke(p)
    \/ \E p \in Procs : Return(p)
    \/ SweepQuery
    \/ SweepCommit
    \/ \E d \in {1, RefreshTtl} : Tick(d)

SessionSpec == SessionInit /\ [][SessionNext]_vars

\* login and the throttle engine.  The counter of one (email, ip) pair was
\* last touched at time 0; the provider gives every answer, and the reads and
\* deletes of calculateLoginThrottle may fail.
CounterStores(counts) ==
    {[k \in ThrottleKeys |-> IF k = <<"e1", "ip1">> THEN doc ELSE NoDoc] :
        doc \in {NoDoc} \cup {[exists |-> TRUE, count |-> c, lastAttempt |-> 0] : c \in counts}}

LoginIdle ==
    /\ LimiterIdle
    /\ failures = [k \in ThrottleKeys |-> 0]
    /\ AdminIdle
    /\ handled = NothingThrown
    /\ told = NotTold
    /\ tokens = [d \in DocIds |-> NoDoc]
    /\ now = 0
    /\ nextId = 1
    /\ proc = [p \in Procs |-> IdleProc]
    /\ sweep = SweepIdle
    /\ swept = {}
    /\ EmptyStore
    /\ req = NewRequest([chain |-> <<>>, resource |-> "none", action |-> "none",
                         target |-> NoTarget], NoHeaderSent, NoUser, FALSE, <<>>)

LoginSteps(ps) ==
    \/ \E p \in ps, f \in BOOLEAN : LoginBegin(p, "e1", "ip1", f)
    \/ \E p \in ps, f \in BOOLEAN : LoginThrottleReset(p, f)
    \/ \E p \in ps, l \in Lookups : LoginLookup(p, l)
    \/ \E p \in ps : LoginRecordRead(p)
    \/ \E p \in ps : LoginRecordWrite(p)
    \/ \E p \in ps : LoginStore(p)
    \/ \E p \in ps : LoginFinish(p)
    \/ \E p \in ps : Return(p)
    \/ \E d \in {1, AttemptWindow} : TickWindow(d)

\* One login at a time, over a counter of any count up to MaxCount.
ThrottleInit == LoginIdle /\ loginThrottling \in CounterStores(1..MaxCount)

ThrottleNext == LoginSteps({1})

\* Logins of the pair in flight together, over a counter below, just below
\* and at the threshold.
LoginInit ==
    /\ LoginIdle
    /\ loginThrottling \in CounterStores({MAX_FAILED_ATTEMPTS - 3,
                                          MAX_FAILED_ATTEMPTS - 1,
                                          MAX_FAILED_ATTEMPTS})

LoginNext == LoginSteps(Procs)

LoginSpec == LoginInit /\ [][LoginNext]_vars

\* One invocation of login, refreshToken or logout at a time, with every
\* call on the store able to reject.
FaultInit == LoginIdle /\ loginThrottling \in CounterStores({MAX_FAILED_ATTEMPTS - 1})

FaultNext ==
    \/ LoginSteps({1})
    \/ \E v \in TokenValues : RefreshQuery(1, v, "ip1")
    \/ RefreshDeleteExpired(1)
    \/ RefreshUpdate(1)
    \/ \E u \in Uids, v \in DocIds : LogoutQuerySpecific(1, u, v)
    \/ \E u \in Uids : LogoutQueryAll(1, u)
    \/ \E u \in Uids : LogoutQueryRecent(1, u)
    \/ LogoutDelete(1)
    \/ LogoutRevoke(1)
    \/ \E v \in TokenValues : RefreshQueryFails(1, v, "ip1")
    \/ \E u \in Uids : LogoutQueryFails(1, u)
    \/ StoreWriteFails(1)
    \/ RecordAttemptFails(1)
    \/ ClearThrottlingFails(1)
    \/ Tick(RefreshTtl)

FaultSpec == FaultInit /\ [][FaultNext]_vars

\* One request to any mounted route, with the limiter of the login route
\* fresh, part used or at its limit for the client.
MountedRequests ==
    {NewRequest(route, h, NoUser, FALSE, <<>>) : route \in MountedRoutes, h \in Headers}

UsedTrackers ==
    {NoTracker} \cup
    {[exists |-> TRUE, count |-> c, resetTime |-> WindowMs] : c \in 1..MaxRequests}

GatewayInit ==
    /\ ipRequestCounts \in
          {[k \in LimiterKeys |-> IF k = LimiterKey("counting", "ip1") THEN t ELSE NoTracker] :
              t \in UsedTrackers}
    /\ clock = 0
    /\ hit = [r \in Hits |-> IdleHit]
    /\ tally = [k \in LimiterKeys |->
                  [NoTally EXCEPT !.admitted = ipRequestCounts[k].count]]
    /\ AdminIdle
    /\ handled = NothingThrown
    /\ told = NotTold
    /\ tokens = [d \in DocIds |-> NoDoc]
    /\ loginThrottling = [k \in ThrottleKeys |-> NoDoc]
    /\ failures = [k \in ThrottleKeys |-> 0]
    /\ now = 0
    /\ nextId = 1
    /\ proc = [p \in Procs |-> IdleProc]
    /\ sweep = SweepIdle
    /\ swept = {}
    /\ userRoles \in AssignmentStores
    /\ roles \in RoleStores
    /\ permissions = SeededPermissions
    /\ req \in MountedRequests

GatewayNext ==
    \/ AuthLimiter
    \/ Next

GatewaySpec == GatewayInit /\ [][GatewayNext]_vars

\* Concurrent calls that add and remove permissions of role r1, which
\* exists or not, while the store aborts or fails commits.
NoRequest ==
    NewRequest([chain |-> <<>>, resource |-> "none", action |-> "none",
                target |-> NoTarget], NoHeaderSent, NoUser, FALSE, <<>>)

RoleInit ==
    /\ SessionIdle
    /\ userRoles = [u \in Uids |-> NoDoc]
    /\ permissions = [p \in PermIds |-> NoDoc]
    /\ roles \in {[r \in RoleIds |-> IF r = "r1" THEN d ELSE NoDoc] :
                     d \in {NoDoc, NamedRole("r1", "n1", <<>>),
                             NamedRole("r1", "n1", <<"p1">>)}}
    /\ req = NoRequest

RoleNext ==
    \/ \E c \in Procs, op \in {"add", "remove"}, ids \in PermissionIdLists :
          BeginRoleUpdate(c, op, "r1", ids)
    \/ \E c \in Procs : RunTransaction(c)
    \/ \E c \in Procs, outcome \in {"ok"} \cup TxnErrors : TxnCommit(c, outcome)
    \/ \E c \in Procs : TxnBackoff(c)
    \/ \E c \in Procs : CallReturn(c)

RoleSpec == RoleInit /\ [][RoleNext]_vars

\* The permissionIds of a grant or a revocation, lists that repeat an id
\* included.
RepeatingIdLists ==
    {<<"p1">>, <<"p2">>, <<"p1", "p2">>, <<"p2", "p1">>, <<"p1", "p1">>}

\* Grants and revocations on one role whose stored list starts without a
\* repeated id.
GrantInit ==
    /\ SessionIdle
    /\ userRoles = [u \in Uids |-> NoDoc]
    /\ permissions = [p \in PermIds |-> NoDoc]
    /\ roles \in {[r \in RoleIds |-> IF r = "r1" THEN NamedRole("r1", "n1", l) ELSE NoDoc] :
                     l \in {<<>>, <<"p1">>, <<"p2", "p1">>}}
    /\ req = NoRequest

GrantNext ==
    \/ \E c \in Procs, op \in {"add", "remove"}, ids \in RepeatingIdLists :
          BeginRoleUpdate(c, op, "r1", ids)
    \/ \E c \in Procs : RunTransaction(c)
    \/ \E c \in Procs : TxnCommit(c, "ok")
    \/ \E c \in Procs : CallReturn(c)

GrantSpec == GrantInit /\ [][GrantNext]_vars

\* Refreshes in flight together over one record issued at time 0, while the
\* time passes its expiry.
RefreshInit ==
    /\ LimiterIdle
    /\ AdminIdle
    /\ handled = NothingThrown
    /\ told = NotTold
    /\ failures = [k \in ThrottleKeys |-> 0]
    /\ loginThrottling = [k \in ThrottleKeys |-> NoDoc]
    /\ now = 0
    /\ nextId = 2
    /\ proc = [p \in Procs |-> IdleProc]
    /\ sweep = SweepIdle
    /\ swept = {}
    /\ EmptyStore
    /\ req = NoRequest
    /\ tokens = [d \in DocIds |-> IF d = 1 THEN NewTokenRecord(1, "u1", "ip1", 0)
                                   ELSE NoDoc]

RefreshNext ==
    \/ \E p \in Procs, v \in TokenValues, ip \in Ips : RefreshQuery(p, v, ip)
    \/ \E p \in Procs : RefreshDeleteExpired(p)
    \/ \E p \in Procs : RefreshUpdate(p)
    \/ \E p \in Procs : Return(p)
    \/ \E d \in {1, RefreshTtl} : Tick(d)

RefreshSpec == RefreshInit /\ [][RefreshNext]_vars

\* The cleanup task running beside logins, refreshes and logouts, with its
\* commit able to fail.
SweepNext ==
    \/ SessionNext
    \/ SweepFails

SweepSpec == SessionInit /\ [][SweepNext]_vars

\* Any value reaching errorHandler, in any mode.
ErrorInit ==
    /\ LimiterIdle
    /\ call = [c \in Procs |-> IdleCall]
    /\ failures = [k \in ThrottleKeys |-> 0]
    /\ tokens = [d \in DocIds |-> NoDoc]
    /\ loginThrottling = [k \in ThrottleKeys |-> NoDoc]
    /\ now = 0
    /\ nextId = 1
    /\ proc = [p \in Procs |-> IdleProc]
    /\ sweep = SweepIdle
    /\ swept = {}
    /\ EmptyStore
    /\ req = NoRequest
    /\ told = NotTold
    /\ handled \in {[env |-> e, err |-> x, res |-> NoResponse] :
                       e \in NodeEnvs, x \in ThrownValues}

ErrorNext == ErrorHandler

ErrorSpec == ErrorInit /\ [][ErrorNext]_vars

\* deleteDocument calls, with either flag, on roles that exist or not.
DeleteInit ==
    /\ SessionIdle
    /\ userRoles = [u \in Uids |-> NoDoc]
    /\ permissions = [p \in PermIds |-> NoDoc]
    /\ roles \in {[r \in RoleIds |-> IF r \in S THEN NamedRole(r, "n1", <<"p1">>)
                                      ELSE NoDoc] : S \in SUBSET RoleIds}
    /\ req = NoRequest

DeleteNext ==
    \/ \E c \in Procs, id \in RoleIds, flag \in BOOLEAN, fault \in BOOLEAN :
          DeleteDocumentGet(c, id, flag, fault)
    \/ \E c \in Procs, fault \in BOOLEAN : DeleteDocumentDelete(c, fault)
    \/ \E c \in Procs : CallReturn(c)

DeleteSpec == DeleteInit /\ [][DeleteNext]_vars

\* Concurrent createRole and createPermission calls over a store that
\* holds one role and one permission, or none.
PermissionPairs == {<<"users", "read">>, <<"roles", "read">>}

CreateInit ==
    /\ SessionIdle
    /\ userRoles = [u \in Uids |-> NoDoc]
    /\ roles \in {[r \in RoleIds |-> IF r = "r1" THEN d ELSE NoDoc] :
                     d \in {NoDoc, NamedRole("r1", "n1", <<>>)}}
    /\ permissions \in {[p \in PermIds |-> IF p = "p1" THEN d ELSE NoDoc] :
                           d \in {NoDoc, PermissionDoc("p1", "users", "read")}}
    /\ req = NoRequest

CreateNext ==
    \/ \E c \in Procs, name \in RoleNames : CreateRoleQuery(c, name)
    \/ \E c \in Procs : CreateRoleWrite(c)
    \/ \E c \in Procs, pair \in PermissionPairs : CreatePermissionQuery(c, pair)
    \/ \E c \in Procs : CreatePermissionWrite(c)
    \/ \E c \in Procs : CallReturn(c)

CreateSpec == CreateInit /\ [][CreateNext]_vars

\* One call at a time, each step of which is taken in the end: the event
\* loop runs every continuation and every timer that is ready.
RetryStep ==
    \/ RunTransaction(1)
    \/ \E outcome \in {"ok"} \cup TxnErrors : TxnCommit(1, outcome)
    \/ TxnBackoff(1)
    \/ CallReturn(1)

RetryNext ==
    \/ \E op \in {"add", "remove"}, ids \in PermissionIdLists :
          BeginRoleUpdate(1, op, "r1", ids)
    \/ RetryStep

RetrySpec == RoleInit /\ [][RetryNext]_vars /\ WF_vars(RetryStep)

\* Logins to existing, enabled accounts with no counter, with the right
\* password, a wrong one and none.
PasswordInit == LoginIdle /\ loginThrottling = [k \in ThrottleKeys |-> NoDoc]

PasswordNext ==
    \/ \E p \in Procs, e \in Emails, w \in Passwords : LoginSubmit(p, e, w, "ip1")
    \/ \E p \in Procs : LoginLookup(p, "ok")
    \/ \E p \in Procs : LoginStore(p)
    \/ \E p \in Procs : LoginFinish(p)
    \/ \E p \in Procs : Return(p)

PasswordSpec == PasswordInit /\ [][PasswordNext]_vars

\* Logins of a pair whose counter, last touched at time 0, is at or over
\* the threshold, repeated second after second with no failure recorded.
HonourInit ==
    /\ LoginIdle
    /\ loginThrottling \in CounterStores({MAX_FAILED_ATTEMPTS - 1, MAX_FAILED_ATTEMPTS,
                                          MAX_FAILED_ATTEMPTS + 1, MAX_FAILED_ATTEMPTS + 2})

HonourNext ==
    \/ \E p \in Procs, e \in Emails : LoginBegin(p, e, "ip1", FALSE)
    \/ \E p \in Procs : ReturnTold(p)
    \/ TickSecond

HonourSpec == HonourInit /\ [][HonourNext]_vars

\* Logins of two emails from one address that all fail, in flight
\* together, starting with no counter.
CounterInit == LoginIdle /\ loginThrottling = [k \in ThrottleKeys |-> NoDoc]

CounterNext ==
    \/ \E p \in Procs, e \in Emails :
          failures[<<e, "ip1">>] < MaxFailures /\ LoginBegin(p, e, "ip1", FALSE)
    \/ \E p \in Procs, l \in {"disabled", "firebase_error"} : LoginLookup(p, l)
    \/ \E p \in Procs : LoginRecordRead(p)
    \/ \E p \in Procs : TalliedRecordWrite(p)
    \/ \E p \in Procs : Return(p)

CounterSpec == CounterInit /\ [][CounterNext]_vars

\* A request to a protected route, or else the controllers of the auth routes,
\* with every call on the provider and the store able to stay unanswered.
StallInit ==
    \/ FaultInit
    \/ /\ SessionIdle
       /\ userRoles \in AssignmentStores
       /\ roles \in RoleStores
       /\ permissions = SeededPermissions
       /\ req \in RouteRequests

StallNext ==
    \/ Next
    \/ VerifyTokenHangs
    \/ req = NoRequest /\ FaultNext
    \/ req = NoRequest /\ CallNeverAnswers(1)
    \/ \E op \in {"login", "refresh", "logout"} :
          req = NoRequest /\ FirstCallNeverAnswers(1, op)

StallSpec == StallInit /\ [][StallNext]_vars

\* Requests of one client going through the two limiters while time passes.
LimiterInit == LoginIdle /\ loginThrottling = [k \in ThrottleKeys |-> NoDoc]

LimiterNext ==
    \/ \E r \in Hits, l \in Limiters, ip \in Clients : RateLimiter(r, l, ip)
    \/ \E r \in Hits, status \in Statuses : Finish(r, status)
    \/ \E r \in Hits : Rejected(r)
    \/ \E d \in {1, 1000} : ClockTick(d)

LimiterSpec == LimiterInit /\ [][LimiterNext]_vars

\* Requests of one client without a user going through the two limiters made
\* without a keyGenerator and through one with a keyGenerator of its own.
SharedKeyInit == LoginIdle /\ loginThrottling = [k \in ThrottleKeys |-> NoDoc]

SharedKeyNext ==
    \/ \E r \in Hits, l \in DefaultKeyLimiters, ip \in Clients : DefaultKeyLimiter(r, l, ip)
    \/ \E r \in Hits, ip \in Clients : RateLimiter(r, "counting", ip)
    \/ \E r \in Hits, status \in Statuses : Finish(r, status)
    \/ \E r \in Hits : Rejected(r)
    \/ ClockTick(1000)

SharedKeySpec == SharedKeyInit /\ [][SharedKeyNext]_vars

ThrottleSpec == ThrottleInit /\ [][ThrottleNext]_vars

(***************************************************************************)
(* Properties of the request pipeline (checked under Spec).                *)
(***************************************************************************)
Ran(mw) == mw \in Range(req.ran)

\* The middleware ran and called next().
Passed(mw) == \E i \in 1..Len(req.ran) : req.ran[i] = mw /\ req.pos > i

Forbidden == req.state = "responded" /\ req.status = 403
    /\ req.error \in {"INSUFFICIENT_PERMISSIONS", "PERMISSIONS_NOT_LOADED"}

\* The authorization rule of the specification over a permission set.
Authorizes(P, resource, action) ==
    \E p \in P :
        \/ p.resource = resource /\ p.action = action
        \/ p.resource = resource /\ p.action = "manage"
        \/ p.resource = "*" /\ p.action = "manage"

\* C1: once hasPermission(r, a) has run over an attached permission set P,
\* the request went on iff P holds an exact (r, a), an (r, manage) or a
\* ("*", manage) permission, and was otherwise rejected as Forbidden; a set
\* holding only (roles, manage) passes (roles, read) and fails (users, read).
C1_CheckIffSubsumed ==
    (req.checked /\ req.loaded) =>
        LET P == Range(req.permissions) IN
        /\ Authorizes(P, req.resource, req.action) <=> ~Forbidden
        /\ ~Forbidden => Passed("hasPermission") \/ Passed("selfOrPermission")
        /\ Forbidden => req.error = "INSUFFICIENT_PERMISSIONS" /\ ~Ran("handler")
        /\ (P = {Permission("p0", "roles", "manage")} /\ req.action = "read") =>
              /\ req.resource = "roles" => ~Forbidden
              /\ req.resource = "users" => Forbidden

C1_Witness ==
    /\ req.checked /\ req.loaded
    /\ req.permissions = <<Permission("p0", "roles", "manage")>>
    /\ req.resource = "roles" /\ req.action = "read"
    /\ Ran("handler")

\* The per-request authorization state of the specification's state machine.
Stage(r) ==
    IF r.status = 403 THEN "Denied"
    ELSE IF \E i \in 1..Len(r.ran) :
                /\ r.ran[i] \in {"hasPermission", "selfOrPermission"}
                /\ r.pos > i
         THEN "Authorized"
    ELSE IF r.loaded THEN "PermissionsLoaded"
    ELSE IF r.user # NoUser THEN "TokenVerified"
    ELSE "Unauthenticated"

StageMoves ==
    {<<"Unauthenticated", "TokenVerified">>,
     <<"TokenVerified", "PermissionsLoaded">>,
     <<"PermissionsLoaded", "Authorized">>,
     <<"PermissionsLoaded", "Denied">>,
     <<"TokenVerified", "Denied">>}

HasCheck(chain) ==
    \E i \in 1..Len(chain) : chain[i] \in {"hasPermission", "selfOrPermission"}

\* The handler ran after verification, loading and a passed check, in order.
HandlerOnlyWhenAuthorized ==
    (Ran("handler") /\ HasCheck(req.chain)) =>
        /\ req.ran = req.chain
        /\ req.user # NoUser
        /\ req.loaded
        /\ \/ Authorizes(Range(req.permissions), req.resource, req.action)
           \/ req.chain = SelfOrAdmin /\ req.user = req.target

\* A check met without an attached permission set ends in Forbidden.
UnloadedIsForbidden ==
    (req.checked /\ ~req.loaded) => Forbidden /\ ~Ran("handler")

\* The stage only moves forward, and never to Denied from TokenVerified
\* unless the permission set was never attached.
StageForwardOnly ==
    \/ Stage(req') = Stage(req)
    \/ /\ <<Stage(req), Stage(req')>> \in StageMoves
       /\ <<Stage(req), Stage(req')>> = <<"TokenVerified", "Denied">> => ~req'.loaded

\* C2: the business handler of a guarded route runs only after, in this
\* order, token verification succeeded, permission loading completed and the
\* check passed (or the self-access bypass applied); the request's stage only
\* moves Unauthenticated -> TokenVerified -> PermissionsLoaded ->
\* Authorized | Denied; a check reached without an attached permission set is
\* rejected as Forbidden and the handler is not reached.
C2_PipelineOrder ==
    /\ [](HandlerOnlyWhenAuthorized /\ UnloadedIsForbidden)
    /\ [][StageForwardOnly]_vars

C2_Witness ==
    /\ req.chain = GuardedValidated
    /\ req.ran = GuardedValidated
    /\ req.status = 200
    /\ Stage(req) = "Authorized"

\* C3: on GET /users/:id, a caller whose uid equals the target id goes on to
\* the handler without hasPermission being invoked, whatever permission set
\* is attached; for any other caller the outcome is that of
\* check(permissions, users, read).
C3_SelfAccessBeforeCheck ==
    (req.chain = SelfOrAdmin /\ Ran("selfOrPermission")) =>
        IF req.user = req.target
        THEN ~req.checked /\ req.status # 403 /\ Passed("selfOrPermission")
        ELSE /\ req.checked
             /\ Authorizes(Range(req.permissions), "users", "read") <=> ~Forbidden
             /\ Forbidden => ~Ran("handler")

C3_Witness ==
    /\ req.chain = SelfOrAdmin
    /\ req.user = req.target
    /\ req.loaded /\ req.permissions = <<>>
    /\ ~req.checked
    /\ Ran("handler") /\ req.status = 200

\* The header carries no usable bearer token: it is absent or empty, does not
\* start with "Bearer ", or nothing follows the prefix.
NoBearerToken(h) ==
    \/ ~h.present
    \/ h.text = <<>>
    \/ h.text[1] # "B"
    \/ Len(h.text) = 1
    \/ h.text[2] = "B"

EndedUnauthenticated ==
    /\ req.state = "responded" /\ req.status = 401
    /\ req.error \in {"NO_TOKEN_PROVIDED", "INVALID_TOKEN"}
    /\ req.user = NoUser
    /\ ~req.loaded /\ ~req.checked
    /\ req.ran = <<"verifyToken">>

\* C4: when token verification fails (no Authorization header, no "Bearer "
\* prefix, an empty token, or a token the provider rejects), the request ends
\* with 401, no claims are attached and no later stage runs.
C4_VerifyFailureStops ==
    (req.chain[1] = "verifyToken" /\ Ran("verifyToken")) =>
        /\ NoBearerToken(req.header) => EndedUnauthenticated
        /\ req.user = NoUser => EndedUnauthenticated
        /\ req.user # NoUser =>
              /\ ~NoBearerToken(req.header)
              /\ req.user = IdTokenUid(<<req.header.text[2]>>)

C4_Witness ==
    /\ req.header.present /\ req.header.text = <<"B", "a">>
    /\ Ran("verifyToken")
    /\ req.status = 401 /\ req.error = "INVALID_TOKEN"

\* C5: a failure while loading the role assignment, the roles or the
\* permissions (a store error, or a store call that never completes) ends the
\* request with an internal error.
C5_LoadFailureEndsInternal ==
    req.loadFault # "none" =>
        /\ req.state = "responded"
        /\ req.status = 500
        /\ req.error = "PERMISSION_LOADING_ERROR"

\* A failed load is never turned into an attached permission set.
C5_NeverFailOpen ==
    req.loadFault # "none" => ~req.loaded /\ ~req.checked /\ ~Ran("handler")

\* The permissions reachable from a user's assignment through roles that exist.
ExpectedPermissions(uid) ==
    LET a == userRoles[uid]
        live == IF a.exists THEN {r \in Range(a.roleIds) : roles[r].exists} ELSE {}
        ids == UNION {Range(roles[r].permissions) : r \in live}
    IN  {Permission(p, permissions[p].resource, permissions[p].action) :
            p \in {q \in ids : permissions[q].exists}}

\* C6: loadPermissions attaches exactly the permissions whose ids appear in a
\* role that is both assigned to the user and present in the store, each
\* once; roles that no longer exist are skipped without error, and a user
\* with no assignment gets the empty set and goes on to the next stage.
C6_LoadedPermissions ==
    (Ran("loadPermissions") /\ req.user # NoUser /\ req.loadFault = "none") =>
        /\ req.loaded
        /\ req.status \notin {401, 500}
        /\ Passed("loadPermissions")
        /\ Range(req.permissions) = ExpectedPermissions(req.user)
        /\ Len(req.permissions) = Cardinality(ExpectedPermissions(req.user))
        /\ ~userRoles[req.user].exists => req.permissions = <<>>

C6_Witness ==
    /\ Ran("loadPermissions") /\ req.loaded
    /\ userRoles[req.user].exists
    /\ userRoles[req.user].roleIds = <<"r2", "r1">>
    /\ ~roles["r2"].exists
    /\ roles["r1"].exists /\ roles["r1"].permissions = <<"p1", "p4", "p1">>
    /\ req.permissions = <<Permission("p1", "users", "read")>>
    /\ Ran("handler")


(***************************************************************************)
(* Properties of the auth controller (checked under SessionSpec).          *)
(***************************************************************************)
Done(p, op) == proc[p].pc = "done" /\ proc[p].op = op

\* The record an invocation matched, while it still exists.
Matched(p) == {d \in proc[p].docs : tokens[d].exists}

\* The records a step removes from the store.
Deleted == {d \in DocIds : tokens[d].exists /\ ~tokens'[d].exists}

\* Every record expires its lifetime after login created it, and a login
\* that answers 200 returns the value of the record it stored.
IssuedFor30Days ==
    /\ \A d \in DocIds : tokens[d].exists =>
          /\ tokens[d].expires = tokens[d].createdAt + 30 * 24 * 60 * 60
          /\ tokens[d].token = d
    /\ \A p \in Procs : (Done(p, "login") /\ proc[p].status = 200) =>
          /\ proc[p].issued # UnknownToken
          /\ tokens[proc[p].issued].exists =>
                tokens[proc[p].issued].userId = UidOfEmail(proc[p].email)

\* The answer of a finished refresh, by what it found at its lookup time.
RefreshOutcome(p) ==
    LET q == proc[p] IN
    /\ q.code \in {"none", "INVALID_REFRESH_TOKEN", "REFRESH_TOKEN_EXPIRED",
                   "REFRESH_ERROR"}
    /\ q.code = "INVALID_REFRESH_TOKEN" <=> q.docs = {}
    /\ q.docs = {} => DocsWithToken(q.token) = {} /\ q.at = now
    /\ q.docs # {} =>
          /\ q.at <= q.expires => q.code \in {"none", "REFRESH_ERROR"}
          /\ q.at > q.expires => q.code = "REFRESH_TOKEN_EXPIRED"
          /\ q.code = "REFRESH_ERROR" => Matched(p) = {}
          /\ q.code = "none" =>
                /\ q.status = 200
                /\ \A d \in q.docs : tokens[d].exists /\ tokens[d].token = q.token
                                     /\ tokens[d].userId = q.uid
          /\ q.code = "REFRESH_TOKEN_EXPIRED" =>
                /\ q.status = 401
                /\ Matched(p) = {}
                /\ DocsWithToken(q.token) = {}

StepOf(p) == proc'[p] # proc[p]

\* What a refresh may change in the store: lastUsed of the record it
\* matched, when it answers 200.
RefreshFrame(p) ==
    \A d \in DocIds :
        \/ tokens'[d] = tokens[d]
        \/ /\ d \in Matched(p)
           /\ proc'[p].pc = "done" /\ proc'[p].status = 200
           /\ tokens'[d] = [tokens[d] EXCEPT !.lastUsed = now]

RefreshSucceeded(p) ==
    (Done(p, "refresh") /\ proc[p].status = 200) =>
        \A d \in proc[p].docs :
            /\ tokens[d].exists
            /\ tokens[d].token = proc[p].token
            /\ tokens[d].lastUsed = now
            /\ d \in DocsWithToken(proc[p].token)

\* An unexpired record that still exists is refreshed whatever the caller's IP.
RefreshIgnoresOrigin(p) ==
    (Done(p, "refresh") /\ Matched(p) # {} /\ proc[p].at <= proc[p].expires) =>
        proc[p].status = 200

\* C8: a successful refresh changes nothing in the store but lastUsed of the
\* record it matched (token value, userId, expires and origin of that record
\* and all other records stay as they are), so the value stays valid for a
\* later refresh; the caller's IP plays no part in the acceptance.
C8_RefreshFrame ==
    /\ [][\A p \in Procs :
            (StepOf(p) /\ proc'[p].op \in {"refresh", "idle"} /\ proc[p].op \in {"refresh", "idle"}
               /\ proc'[p].code # "REFRESH_TOKEN_EXPIRED")
            => RefreshFrame(p) /\ loginThrottling' = loginThrottling]_vars
    /\ [](\A p \in Procs : RefreshSucceeded(p) /\ RefreshIgnoresOrigin(p))

C8_Witness ==
    \E p \in Procs :
        /\ Done(p, "refresh") /\ proc[p].status = 200
        /\ \E d \in proc[p].docs :
              /\ tokens[d].clientIp # proc[p].ip
              /\ tokens[d].lastUsed > tokens[d].createdAt

\* C9: a logout that names a refresh token deletes at most one record, and
\* only one whose token is the given value and whose userId is the caller;
\* every other record stays as it is.
C9_LogoutSpecificScoped ==
    [][\A p \in Procs :
          (StepOf(p) /\ proc[p].op = "logout" /\ proc[p].token # UnknownToken) =>
              /\ Cardinality(Deleted) <= 1
              /\ \A d \in Deleted : /\ tokens[d].token = proc[p].token
                                    /\ tokens[d].userId = proc[p].uid
              /\ \A d \in DocIds \ Deleted : tokens'[d] = tokens[d]]_vars

C9_Witness ==
    \E p \in Procs :
        /\ Done(p, "logout") /\ proc[p].token # UnknownToken
        /\ proc[p].docs = {}
        /\ tokens[proc[p].token].exists
        /\ tokens[proc[p].token].userId # proc[p].uid

\* C10: when logout({allDevices: true}) of a user completes, no record with
\* that userId remains in the store, also when logins of the same user run
\* concurrently with it.
C10_LogoutAllLeavesNone ==
    \A p \in Procs :
        (Done(p, "logout") /\ proc[p].allDevices /\ proc[p].status = 200) =>
            DocsOfUser(proc[p].uid) = {}

\* logout({allDevices: true}) deletes the records its query returned, all of
\* the caller, and no record of another user.
LogoutAllScoped ==
    [][\A p \in Procs :
          (StepOf(p) /\ proc[p].op = "logout" /\ proc[p].allDevices) =>
              /\ Deleted = Matched(p) \cap (IF proc[p].pc = "o_delete" THEN DocIds ELSE {})
              /\ \A d \in Deleted : tokens[d].userId = proc[p].uid
              /\ \A d \in DocIds \ Deleted : tokens'[d] = tokens[d]]_vars


\* A logout with neither a refreshToken nor allDevices in its body.
DefaultLogout(q) == q.op = "logout" /\ q.token = UnknownToken /\ ~q.allDevices

\* The query of a default logout returns a record of the caller that no
\* other record of the caller exceeds in lastUsed, or nothing when the caller
\* has none.
RecentQueryPicksGreatest(p) ==
    (proc[p].pc = "idle" /\ DefaultLogout(proc'[p])) =>
        LET mine == DocsOfUser(proc'[p].uid) IN
        /\ tokens' = tokens
        /\ mine = {} <=> proc'[p].docs = {}
        /\ \A d \in proc'[p].docs :
              /\ proc'[p].docs = {d}
              /\ d \in mine
              /\ \A e \in mine : tokens[e].lastUsed <= tokens[d].lastUsed

\* A default logout removes nothing but the record its query returned, and
\* that record is gone once its delete has run.
RecentDeleteScoped(p) ==
    (StepOf(p) /\ DefaultLogout(proc[p])) =>
        /\ Deleted \subseteq proc[p].docs
        /\ \A d \in DocIds \ Deleted : tokens'[d] = tokens[d]
        /\ proc[p].pc = "o_delete" => \A d \in proc[p].docs : ~tokens'[d].exists

\* What holds of the default logout in every interleaving: it selects, when
\* the caller has a record, exactly one record of the caller, one with the
\* greatest lastUsed at the time of the query; its delete removes that
\* record if it is still stored and nothing else, and every other record of
\* the caller and of other users stays as it is.
LogoutDefaultMostRecent ==
    [][\A p \in Procs : RecentQueryPicksGreatest(p) /\ RecentDeleteScoped(p)]_vars

\* C11 as stated: the logout deletes exactly one record whenever the caller
\* had one, that is, the record it selected is still in the store when its
\* delete runs.
C11_DeletesExactlyOne ==
    \A p \in Procs :
        (DefaultLogout(proc[p]) /\ proc[p].pc = "o_delete") =>
            \A d \in proc[p].docs : tokens[d].exists

C11_Witness ==
    \E p \in Procs :
        /\ Done(p, "logout") /\ DefaultLogout(proc[p]) /\ proc[p].status = 200
        /\ \E d \in proc[p].docs : ~tokens[d].exists
        /\ \E e \in DocsOfUser(proc[p].uid) : tokens[e].lastUsed < now

\* C12: a logout that answers 200 has, in each of its three modes and also
\* when it found no record to delete, called revokeRefreshTokens for the
\* caller's uid, and the call is made after the deletion step, never while
\* the deletion is still to come.
C12_LogoutRevokesAfterDelete ==
    \A p \in Procs :
        /\ (Done(p, "logout") /\ proc[p].status = 200) =>
              proc[p].revoked = proc[p].uid /\ proc[p].uid # NoUser
        /\ (proc[p].op = "logout" /\ proc[p].pc \in {"o_delete", "o_revoke"}) =>
              proc[p].revoked = NoUser

C12_Witness ==
    \E p \in Procs :
        /\ Done(p, "logout") /\ proc[p].status = 200
        /\ proc[p].docs = {}
        /\ proc[p].revoked = proc[p].uid
        /\ DocsOfUser(proc[p].uid) # {}


(***************************************************************************)
(* Properties of the throttle engine (checked under ThrottleSpec) and of    *)
(* login (checked under LoginSpec).                                        *)
(***************************************************************************)
\* The counter document of the pair a login is for.
KeyOf(p) == <<proc[p].email, proc[p].ip>>

\* calculateLoginThrottle has returned to login p without a storage error.
EngineReturned(p) ==
    proc[p].op = "login" /\ proc[p].pc # "l_reset" /\ ~proc[p].fault

\* The counter login p read was inside the attempt window at that time.
InWindow(p) ==
    proc[p].seen.exists /\ proc[p].at - proc[p].seen.lastAttempt <= 60 * 60

BackoffTable ==
    <<1000, 2000, 4000, 8000, 16000, 32000, 64000, 128000, 256000, 512000, 600000>>

ExpectedDelay(p) ==
    LET doc == proc[p].seen IN
    IF ~doc.exists THEN 0
    ELSE IF ~InWindow(p) THEN 0
    ELSE IF doc.count < 5 THEN 0
    ELSE BackoffTable[(IF doc.count - 5 < 10 THEN doc.count - 5 ELSE 10) + 1]

\* C14: calculateLoginThrottle returns 0 when there is no counter, 0 when
\* the counter's last attempt is more than an hour old - and then it has
\* deleted the counter -, 0 when count < 5, and otherwise
\* min(1000 * 2^min(count - 5, 10), 600000); it deletes a counter in no
\* other case.
C14_ThrottleFormula ==
    /\ [](\A p \in Procs : EngineReturned(p) => proc[p].delay = ExpectedDelay(p))
    /\ [][\A p \in Procs :
            (StepOf(p) /\ proc'[p].op = "login" /\ proc[p].pc \in {"idle", "l_reset"}) =>
                loginThrottling' =
                    IF proc[p].pc = "l_reset" /\ ~proc'[p].fault
                    THEN [loginThrottling EXCEPT ![<<proc[p].email, proc[p].ip>>] = NoDoc]
                    ELSE loginThrottling]_vars

C14_Witness ==
    \E p \in Procs :
        /\ EngineReturned(p) /\ proc[p].pc = "l_lookup"
        /\ proc[p].seen.exists /\ proc[p].seen.count >= 5 /\ ~InWindow(p)
        /\ ~loginThrottling[KeyOf(p)].exists

\* C15 as stated: a counter inside the window with count = 5 gives a delay
\* of 2000 ms, one with count = 7 a delay of 8000 ms.
C15_DelayAtThresholdDoubled ==
    \A p \in Procs : (EngineReturned(p) /\ InWindow(p)) =>
        /\ proc[p].seen.count = 5 => proc[p].delay = 2000
        /\ proc[p].seen.count = 7 => proc[p].delay = 8000

\* C15: with threshold 5 and base delay 1000 ms a counter inside the window
\* with count = 5 gives a delay of 1000 ms (exponent 0), with count = 6 one
\* of 2000 ms, and with count = 7 one of 4000 ms.
C15_DelayAtThreshold ==
    \A p \in Procs : (EngineReturned(p) /\ InWindow(p)) =>
        /\ proc[p].seen.count = 5 => proc[p].delay = 1000
        /\ proc[p].seen.count = 6 => proc[p].delay = 2000
        /\ proc[p].seen.count = 7 => proc[p].delay = 4000

C15_Witness ==
    \E p \in Procs :
        /\ EngineReturned(p) /\ InWindow(p)
        /\ proc[p].seen.count = 7 /\ proc[p].delay = 4000

\* A counter with count c last touched now.
FreshCounter(c) == [exists |-> TRUE, count |-> c, lastAttempt |-> now]

\* C16: inside the attempt window the delay does not decrease when the
\* stored count grows (from each count to the next, hence between any two
\* counts), and it is at most 600000 ms for every count, as is every delay
\* the engine returns.
C16_DelayMonotoneCapped ==
    /\ \A c \in 0..(MaxCount + 4) :
          /\ ThrottleDelay(FreshCounter(c), now) <= ThrottleDelay(FreshCounter(c + 1), now)
          /\ ThrottleDelay(FreshCounter(c + 1), now) <= 600000
    /\ \A p \in Procs : EngineReturned(p) =>
          /\ proc[p].delay = ThrottleDelay(proc[p].seen, proc[p].at)
          /\ proc[p].delay <= 600000

C16_Witness ==
    \E p \in Procs :
        /\ EngineReturned(p) /\ InWindow(p)
        /\ proc[p].seen.count > 15 /\ proc[p].delay = 600000

C19_LookupFailureIsInvalidCredentials ==
    \A p \in Procs :
        (Done(p, "login") /\ proc[p].lookup \in {"firebase_error", "other_error"}) =>
            /\ proc[p].status = 401 /\ proc[p].code = "INVALID_CREDENTIALS"
            /\ proc[p].attempts = 1

\* A rejection the catch takes for a Firebase auth error is answered
\* 401 INVALID_CREDENTIALS with one failed attempt recorded.
FirebaseErrorIsInvalidCredentials ==
    \A p \in Procs :
        (Done(p, "login") /\ proc[p].lookup = "firebase_error") =>
            /\ proc[p].status = 401 /\ proc[p].code = "INVALID_CREDENTIALS"
            /\ proc[p].attempts = 1

AuthOutcomes ==
    {"INVALID_CREDENTIALS", "ACCOUNT_DISABLED", "LOGIN_THROTTLED",
     "INVALID_REFRESH_TOKEN", "REFRESH_TOKEN_EXPIRED"}

StoreFailureOutcome ==
    \A p \in Procs : (proc[p].pc = "done" /\ proc[p].fault) =>
        CASE proc[p].faultIn \in {"login", "refreshToken", "logout"} ->
                proc[p].status = 500 /\ proc[p].code = ServerErrorOf(proc[p].op)
          [] proc[p].faultIn = "calculateLoginThrottle" ->
                proc[p].status = 401 /\ proc[p].code = "LOGIN_THROTTLED"
          [] proc[p].faultIn = "recordLoginAttempt" ->
                proc[p].status = 401
                  /\ proc[p].code \in {"INVALID_CREDENTIALS", "ACCOUNT_DISABLED"}
          [] OTHER -> proc[p].status = 200

CountingKeys == {k \in LimiterKeys : ~SkipSuccessfulRequests(k[1])}

SkippingKeys == {k \in LimiterKeys : SkipSuccessfulRequests(k[1])}

\* C22: a limiter that counts every request has admitted at most maxRequests
\* requests in the window of a key, and its count is the number admitted
\* (rejected requests add nothing); a request is rejected only with the
\* count at the limit, with status 429 and a retryAfter above 0.
C22_ExactlyLimitPerWindow ==
    /\ \A k \in CountingKeys :
          /\ tally[k].admitted <= MaxRequests
          /\ ipRequestCounts[k].count = tally[k].admitted
    /\ \A r \in Hits : hit[r].st = "rejected" =>
          /\ hit[r].status = 429 /\ hit[r].count >= MaxRequests
          /\ hit[r].retryAfter > 0

\* What holds of a rejection: its retryAfter is the time left to the reset
\* in whole seconds, rounded up, which is 0 for a request arriving at the
\* very millisecond of the reset; it leaves the count as it was; and the
\* first request after the reset time is admitted with count 1.
LimiterRejects ==
    /\ [](\A r \in Hits : hit[r].st = "rejected" =>
            /\ hit[r].status = 429 /\ hit[r].count >= MaxRequests
            /\ hit[r].retryAfter >= 0
            /\ hit[r].retryAfter = 0 => clock >= hit[r].window)
    /\ [][\A r \in Hits : (hit[r].st = "idle" /\ hit'[r].st = "rejected") =>
            ipRequestCounts' = ipRequestCounts]_vars
    /\ [][\A r \in Hits : (hit[r].st = "idle" /\ hit'[r].st # "idle"
                            /\ WindowExpired(hit'[r].key)) =>
            /\ hit'[r].st = "admitted"
            /\ ipRequestCounts'[hit'[r].key].count = 1
            /\ ipRequestCounts'[hit'[r].key].resetTime = clock + WindowMs]_vars

C22_Witness ==
    \E r \in Hits :
        /\ hit[r].st = "rejected" /\ hit[r].retryAfter = 0
        /\ clock = hit[r].window /\ hit[r].key \in CountingKeys

\* No admitted request of the key is still on its way.
Quiet(k) == \A r \in Hits : hit[r].st = "admitted" => hit[r].key # k

\* C24: with skipSuccessfulRequests, once every admitted request of a key
\* has finished, the count the key holds in its current window is the number
\* of requests admitted in that window that ended with a status >= 400; the
\* count is never below 0.
C24_SkipCountsFailures ==
    /\ \A k \in LimiterKeys : ipRequestCounts[k].count >= 0
    /\ \A k \in SkippingKeys :
          (ipRequestCounts[k].exists /\ ~WindowExpired(k) /\ Quiet(k)) =>
              ipRequestCounts[k].count = tally[k].failed

\* What holds with skipSuccessfulRequests: the count is never below 0 and
\* never above the failed and the unfinished requests of the window.
SkipCountBounds ==
    \A k \in SkippingKeys :
        /\ ipRequestCounts[k].count >= 0
        /\ ipRequestCounts[k].count <= tally[k].failed + tally[k].open

C24_Witness ==
    \E k \in SkippingKeys :
        /\ ipRequestCounts[k].exists /\ ~WindowExpired(k) /\ Quiet(k)
        /\ tally[k].failed = 1 /\ ipRequestCounts[k].count = 0

(***************************************************************************)
(* The place of the rate limiter on the mounted routes (checked under      *)
(* GatewaySpec).                                                           *)
(***************************************************************************)
\* C23: the first middleware that runs for a request, on whatever route, is
\* a rate limiter, so token verification never runs for a request no
\* limiter has counted; and a request rejected by the limiter has run
\* nothing else.
C23_LimiterBeforePipeline ==
    /\ req.ran # <<>> => req.ran[1] = "authLimiter"
    /\ Ran("verifyToken") => Ran("authLimiter")
    /\ req.error = "RATE_LIMIT_EXCEEDED" => req.ran = <<"authLimiter">>

\* What holds: on POST /login the limiter runs first and its rejection ends
\* the request with 429 before validation and the controller; on every
\* other route no limiter runs at all.
LimiterOnLoginOnly ==
    /\ req.chain = Limited =>
          /\ req.ran # <<>> => req.ran[1] = "authLimiter"
          /\ req.error = "RATE_LIMIT_EXCEEDED" =>
                req.ran = <<"authLimiter">> /\ req.status = 429
    /\ req.chain # Limited =>
          ~Ran("authLimiter") /\ req.error # "RATE_LIMIT_EXCEEDED"

C23_Witness ==
    /\ req.chain = Guarded /\ req.status = 200
    /\ Ran("verifyToken") /\ Ran("handler") /\ ~Ran("authLimiter")
    /\ \A r \in Hits : hit[r].st = "idle"

(***************************************************************************)
(* Properties of the role transactions (checked under RoleSpec and         *)
(* RetrySpec).                                                             *)
(***************************************************************************)
RoleUpdate(c) == call[c].op \in {"add", "remove"}

Succeeded(c) == call[c].pc = "done" /\ call[c].status = 200

\* C25: every add or remove that reports success has been applied to the
\* permissions the role held at the moment of its commit, so the calls take
\* effect one after the other in the order of their commits and none is
\* lost: when an add returns, the role holds the ids it added, and when a
\* remove returns, it holds none of the ids it removed.
C25_NoLostUpdate ==
    /\ [](\A c \in Procs : (RoleUpdate(c) /\ Succeeded(c)) =>
            LET held == Range(roles[call[c].role].permissions)
                ids == Range(call[c].ids)
            IN  IF call[c].op = "add" THEN ids \subseteq held ELSE ids \cap held = {})
    /\ [][\A c \in Procs :
            (RoleUpdate(c) /\ call[c].pc = "t_commit" /\ Succeeded(c)') =>
                roles' = [roles EXCEPT ![call[c].role].permissions =
                             TxnEffect(call[c].op, @, call[c].ids)]]_vars

C25_Witness ==
    \E c, d \in Procs :
        /\ c # d /\ Succeeded(c) /\ call[c].op = "add" /\ call[c].wrote
        /\ call[d].op = "add" /\ call[d].ids # call[c].ids
        /\ call[d].attempts > 1 /\ call[d].pc = "t_commit"
        /\ Range(call[c].ids) \subseteq Range(call[d].snapshot.permissions)

\* The role was missing when the body of the call read it.
RoleMissing(c) == RoleUpdate(c) /\ call[c].pc = "done" /\ ~call[c].snapshot.exists

\* C26: a call on a role that does not exist when the transaction reads it
\* fails with the NotFound error, after one execution of the body and
\* without a write.
C26_MissingRoleIsNotFound ==
    \A c \in Procs : RoleMissing(c) =>
        /\ call[c].kind = "NotFoundError" /\ call[c].status = 404
        /\ call[c].executed = 1 /\ ~call[c].wrote

\* What holds of such a call: one execution, no write, and the
\* DatabaseError ROLE_PERMISSION_UPDATE_ERROR.
MissingRoleIsDatabaseError ==
    \A c \in Procs : RoleMissing(c) =>
        /\ call[c].kind = "DatabaseError" /\ call[c].status = 500
        /\ call[c].code = "ROLE_PERMISSION_UPDATE_ERROR"
        /\ call[c].executed = 1 /\ ~call[c].wrote
        /\ ~roles[call[c].role].exists

C26_Witness ==
    \E c \in Procs :
        /\ RoleMissing(c) /\ call[c].op = "add" /\ call[c].status = 500
        /\ call[c].lastError = "Role not found"

C27_NamesUnique ==
    /\ \A r1, r2 \in RoleIds :
          (roles[r1].exists /\ roles[r2].exists /\ roles[r1].name = roles[r2].name)
              => r1 = r2
    /\ \A p1, p2 \in PermIds :
          (permissions[p1].exists /\ permissions[p2].exists
             /\ permissions[p1].resource = permissions[p2].resource
             /\ permissions[p1].action = permissions[p2].action) => p1 = p2
    /\ \A c \in Procs : (call[c].pc = "done" /\ call[c].status = 409) => ~call[c].wrote

\* What holds: a create ends in the ConflictError exactly when its query
\* found the name or the pair, and then it has written nothing; a create
\* that writes adds one document under an id that was free.
CreateChecksThenWrites ==
    /\ [](\A c \in Procs : (call[c].pc = "done" /\ call[c].status = 409) =>
            /\ ~call[c].wrote /\ call[c].created = "none"
            /\ call[c].op = "createRole" => RolesNamed(call[c].name) # {}
            /\ call[c].op = "createPermission" => PermissionsFor(call[c].pair) # {})
    /\ [][\A c \in Procs :
            (call[c].pc = "idle" /\ call'[c].op = "createRole") =>
                (call'[c].status = 409 <=> RolesNamed(call'[c].name) # {})]_vars
    /\ [][\A c \in Procs :
            (call[c].pc = "c_create" /\ call'[c].pc = "done") =>
                /\ call'[c].status = 200
                /\ call[c].op = "createRole" =>
                      /\ ~roles[call'[c].created].exists
                      /\ roles' = [roles EXCEPT ![call'[c].created] =
                                      NamedRole(call'[c].created, call[c].name, <<>>)]
                /\ call[c].op = "createPermission" =>
                      /\ ~permissions[call'[c].created].exists
                      /\ \A p \in PermIds \ {call'[c].created} :
                            permissions'[p] = permissions[p]]_vars

C27_Witness ==
    /\ roles["r1"].exists /\ roles["r2"].exists
    /\ roles["r1"].name = roles["r2"].name
    /\ \E c \in Procs : call[c].pc = "done" /\ call[c].status = 200
                        /\ call[c].op = "createRole"

(***************************************************************************)
(* The failure counter under concurrent failed logins (checked under       *)
(* CounterSpec).                                                           *)
(***************************************************************************)
\* No failed login of the pair is between its start and its response.
Settled(k) ==
    \A p \in Procs : proc[p].op = "login" => <<proc[p].email, proc[p].ip>> # k

StoredCount(k) == IF loginThrottling[k].exists THEN loginThrottling[k].count ELSE 0

\* The count a failed login read before its write.
ReadCount(p) == IF proc[p].counter.exists THEN proc[p].counter.count ELSE 0

\* C29: when the failed logins of a pair have all ended, with no success in
\* between, its counter holds their number (and there is no counter when
\* there was none).
C29_CountIsFailures ==
    \A k \in ThrottleKeys : Settled(k) => StoredCount(k) = failures[k]

\* What holds in every interleaving: the counter exists once a failure was
\* recorded, it never holds more than the failures recorded, and a failed
\* login writes the count it read plus one to the counter of its own pair
\* only.
CountAtMostFailures ==
    /\ [](\A k \in ThrottleKeys :
            /\ StoredCount(k) <= failures[k]
            /\ failures[k] > 0 => StoredCount(k) >= 1)
    /\ [][\A k \in ThrottleKeys : loginThrottling'[k] # loginThrottling[k] =>
            \E p \in Procs :
                /\ proc[p].pc = "l_write" /\ proc'[p].pc = "done"
                /\ <<proc[p].email, proc[p].ip>> = k
                /\ ReadCount(p) + 1 = loginThrottling'[k].count]_vars

C29_Witness ==
    \E k \in ThrottleKeys :
        /\ Settled(k) /\ failures[k] = 2 /\ StoredCount(k) = 1

(***************************************************************************)
(* Calls on the provider or the store that never answer (checked under     *)
(* StallSpec).                                                             *)
(***************************************************************************)
\* C30: no request and no invocation of login, refreshToken or logout is left
\* waiting on a call that never answers; a timeout ends the wait and the
\* request gets its response.
C30_UnansweredCallIsBounded ==
    /\ req.state # "stalled"
    /\ \A p \in Procs : proc[p].pc # "stalled"

\* What the code does instead: the waiting request or invocation has sent
\* nothing, and no step ever moves it again.
SuspendedForEver ==
    /\ [](/\ req.state = "stalled" => req.status = 0 /\ req.error = "none"
          /\ \A p \in Procs : proc[p].pc = "stalled" => proc[p].status = 0)
    /\ [][/\ req.state = "stalled" => req' = req
          /\ \A p \in Procs : proc[p].pc = "stalled" => proc'[p] = proc[p]]_vars

C30_Witness ==
    \E p \in Procs :
        /\ proc[p].op = "login" /\ proc[p].pc = "stalled"
        /\ proc[p].faultIn = "l_lookup" /\ proc[p].status = 0

(***************************************************************************)
(* deleteDocument (checked under DeleteSpec).                              *)
(***************************************************************************)
\* A deleteDocument call that has ended without a failure of the store.
Deleted1(c) ==
    call[c].op = "delete" /\ call[c].pc = "done" /\ call[c].lastError = "none"

Unexpected == handled.res.sent /\ handled.err.kind = "Error"

\* C32: the response to an unexpected error has the generic message in every
\* mode other than development, and the error's own message in development.
C32_GenericOutsideDevelopment ==
    Unexpected =>
        /\ handled.res.status = 500 /\ handled.res.code = "INTERNAL_SERVER_ERROR"
        /\ handled.res.message =
              IF handled.env \in {"development", "unset"} THEN handled.err.message
              ELSE GenericMessage

\* What the code keeps: the generic message in production, the error's own
\* message in every other mode.
GenericInProductionOnly ==
    Unexpected =>
        /\ handled.res.status = 500 /\ handled.res.code = "INTERNAL_SERVER_ERROR"
        /\ ~handled.res.details
        /\ handled.res.message =
              IF handled.env = "production" THEN GenericMessage
              ELSE handled.err.message

C32_Witness ==
    /\ Unexpected /\ handled.env = "test"
    /\ handled.res.message = handled.err.message
    /\ handled.res.message # GenericMessage

(***************************************************************************)
(* Concurrent refreshes of one token (checked under RefreshSpec).          *)
(***************************************************************************)
\* The record a refresh found.
DocOf(p) == CHOOSE d \in proc[p].docs : TRUE

\* C33: a refresh that found the record unexpired, and still finds it when
\* it writes, is accepted for the record's userId whatever other refreshes
\* of the token are in flight; it leaves the record with its token and
\* expiry, its lastUsed being the time of the refresh that wrote last; only
\* a refresh that found the record expired removes it.
C33_ConcurrentRefreshes ==
    /\ [][\A p \in Procs :
            (proc[p].pc = "r_update" /\ proc'[p].pc = "done"
                /\ tokens[DocOf(p)].exists) =>
                LET d == DocOf(p) IN
                /\ proc'[p].status = 200
                /\ proc'[p].uid = tokens[d].userId
                /\ tokens'[d] = [tokens[d] EXCEPT !.lastUsed = now]]_vars
    /\ [][\A d \in DocIds :
            (tokens[d].exists /\ tokens'[d] # tokens[d]) =>
                \E p \in Procs :
                    /\ proc'[p].pc = "done" /\ d \in proc[p].docs
                    /\ \/ proc[p].pc = "r_update" /\ tokens'[d].exists
                       \/ proc[p].pc = "r_delete" /\ Expired(tokens[d], proc[p].at)]_vars

\* One refresh has been accepted and has written lastUsed while another, which
\* found the record before that write, is still to write.
C33_Witness ==
    \E p, q \in Procs :
        /\ p # q
        /\ proc[p].op = "refresh" /\ proc[p].pc = "done" /\ proc[p].status = 200
        /\ proc[q].op = "refresh" /\ proc[q].pc = "r_update"
        /\ proc[q].docs = proc[p].docs
        /\ tokens[DocOf(p)].lastUsed > proc[q].at

(***************************************************************************)
(* cleanupExpiredTokens (checked under SweepSpec).                         *)
(***************************************************************************)
\* C34: the cleanup task removes only records whose expiry is before the time
\* the task took, which refresh rejects as expired at that time; its commit
\* goes through when a record it lists is already gone; and the task never
\* ends by throwing.
C34_SweepOnlyExpired ==
    /\ [](~sweep.thrown)
    /\ [](sweep.pc = "commit" =>
            \A d \in sweep.docs :
                tokens[d].exists =>
                    /\ tokens[d].expires < sweep.at
                    /\ Expired(tokens[d], sweep.at))
    /\ [][(sweep.pc = "commit" /\ sweep'.pc = "idle") =>
            /\ \A d \in DocIds :
                 tokens'[d] # tokens[d] => d \in sweep.docs /\ ~tokens'[d].exists
            /\ tokens' # tokens => \A d \in sweep.docs : ~tokens'[d].exists]_vars
    /\ [][(\E d \in DocIds : tokens[d].exists /\ ~tokens'[d].exists
                             /\ ~Expired(tokens[d], now)) => sweep' = sweep]_vars

\* The task commits while a record it lists has been deleted by a refresh or
\* a logout in the meantime.
C34_Witness ==
    /\ sweep.pc = "commit"
    /\ \E d \in sweep.docs : ~tokens[d].exists
    /\ \E d \in sweep.docs : tokens[d].exists

(***************************************************************************)
(* Grants and revocations as list operations (checked under GrantSpec).    *)
(***************************************************************************)
\* The call c commits its transaction and returns.
Commits(c) ==
    call[c].pc = "t_commit" /\ call'[c].pc = "done" /\ call'[c].status = 200

\* C35: a grant leaves the previous list followed by the given ids that were
\* not in it and writes only when there is such an id; a revocation leaves
\* the previous ids that are not among the given ones, in their order, and
\* writes only when one of them was there; revoking ids just granted to a
\* role that had none of them gives the list back.
C35_GrantAndRevoke ==
    /\ [][\A c \in Procs : Commits(c) =>
            LET prev == roles[call[c].role].permissions
                new == roles'[call[c].role].permissions
                ids == call[c].ids
                Absent(i) == \A k \in 1..Len(prev) : prev[k] # i
                Stays(i) == \A k \in 1..Len(ids) : ids[k] # i
            IN  IF call[c].op = "add"
                THEN /\ new = prev \o SelectSeq(ids, Absent)
                     /\ call'[c].wrote <=> \E k \in 1..Len(ids) : Absent(ids[k])
                ELSE /\ new = SelectSeq(prev, Stays)
                     /\ call'[c].wrote <=> \E k \in 1..Len(prev) : ~Stays(prev[k])]_vars
    /\ [](\A r \in RoleIds, ids \in RepeatingIdLists :
            (roles[r].exists /\ Range(ids) \cap Range(roles[r].permissions) = {}) =>
                RemovePermissions(AddPermissions(roles[r].permissions, ids), ids)
                    = roles[r].permissions)

\* A grant of two new ids in one list has been written, and a call that had
\* nothing to change has returned without writing.
C35_Witness ==
    /\ roles["r1"].exists
    /\ Len(roles["r1"].permissions) >= 2
    /\ \E c \in Procs : call[c].pc = "done" /\ call[c].status = 200 /\ ~call[c].wrote

NoDuplicates(perms) ==
    \A i, j \in 1..Len(perms) : perms[i] = perms[j] => i = j

\* C39: the stored list of a role never holds an id twice.
C39_PermissionsStayASet ==
    \A r \in RoleIds : roles[r].exists => NoDuplicates(roles[r].permissions)

\* What holds: a stored list gets a repeated id only from a grant whose own
\* list repeats an id that the role did not have; a revocation, and a grant
\* of a list without repeats, keep a list without repeats.
DuplicatesOnlyFromRepeatingGrant ==
    [][\A r \in RoleIds :
          (roles[r].exists /\ NoDuplicates(roles[r].permissions)
             /\ ~NoDuplicates(roles'[r].permissions)) =>
          \E c \in Procs :
              /\ Commits(c) /\ call[c].op = "add" /\ call[c].role = r
              /\ ~NoDuplicates(call[c].ids)
              /\ \E k \in 1..Len(call[c].ids) :
                    call[c].ids[k] \notin Range(roles[r].permissions)]_vars

\* A grant of <<p1, p1>> has been stored.
C39_Witness ==
    /\ roles["r1"].exists
    /\ ~NoDuplicates(roles["r1"].permissions)
    /\ \E c \in Procs : call[c].pc = "done" /\ call[c].op = "add" /\ call[c].wrote

(***************************************************************************)
(* The password of a login (checked under PasswordSpec).                   *)
(***************************************************************************)
\* The password the identity provider holds for the account.
AccountPassword(email) == "correct"

LoginSucceeded(p) ==
    proc[p].op = "login" /\ proc[p].pc = "done" /\ proc[p].status = 200

\* C36: a login that is answered with tokens supplied the password of the
\* account.
C36_TokensOnlyForCorrectPassword ==
    \A p \in Procs : LoginSucceeded(p) => proc[p].password = AccountPassword(proc[p].email)

\* What holds: a login succeeds only with some password in the body, and
\* then for any password; a body without a password is answered 400
\* MISSING_CREDENTIALS before anything is read or written.
AnyPasswordGoesOn ==
    /\ [](\A p \in Procs :
            /\ LoginSucceeded(p) => proc[p].password # ""
            /\ (proc[p].op = "login" /\ proc[p].password = "") =>
                   proc[p].pc = "done" /\ proc[p].status = 400 /\ proc[p].issued = UnknownToken)
    /\ [][\A p \in Procs :
            (proc[p].op = "login" /\ proc[p].pc = "l_finish" /\ proc'[p].pc = "done")
                => proc'[p].status = 200]_vars

\* A login with the wrong password has been answered with tokens for the
\* account, whose refresh token is stored.
C36_Witness ==
    \E p \in Procs :
        /\ LoginSucceeded(p)
        /\ proc[p].password = "wrong"
        /\ proc[p].issued \in DocIds
        /\ tokens[proc[p].issued].exists
        /\ tokens[proc[p].issued].userId = UidOfEmail(proc[p].email)

(***************************************************************************)
(* The retryAfter of a throttled login (checked under HonourSpec).         *)
(***************************************************************************)
ThrottledNow(p) ==
    proc[p].op = "login" /\ proc[p].pc = "done" /\ proc[p].code = "LOGIN_THROTTLED"

ThrottledForTheWindow ==
    \A p \in Procs :
        (proc[p].op = "login" /\ proc[p].pc \in {"done", "l_lookup"}) =>
            LET doc == loginThrottling[<<proc[p].email, proc[p].ip>>]
                t == told[<<proc[p].email, proc[p].ip>>]
            IN  /\ ThrottledNow(p) <=>
                     /\ doc.exists /\ doc.count >= MAX_FAILED_ATTEMPTS
                     /\ now - doc.lastAttempt <= AttemptWindow
                /\ (ThrottledNow(p) /\ t.retryAfter > 0) =>
                       proc[p].retryAfter = t.retryAfter

C38_LimitersIndependent ==
    \A r \in Hits : hit[r].limiter \in DefaultKeyLimiters =>
        LET own == tally[<<hit[r].limiter, hit[r].key[2]>>].admitted IN
        /\ hit[r].st = "rejected" => own >= MaxRequestsOf(hit[r].limiter)
        /\ hit[r].st = "admitted" => hit[r].count <= own

\* What holds: the two limiters made without a keyGenerator count into the
\* one tracker of the client's default key, which holds the requests both
\* admitted in the window they share; a limiter with a keyGenerator of its
\* own has a tracker that no other limiter changes.
DefaultKeyIsShared ==
    /\ [](\A ip \in Clients :
            ipRequestCounts[DefaultKey(ip)].count =
                tally[<<"standard", ip>>].admitted + tally[<<"strict", ip>>].admitted)
    /\ [](\A r \in Hits : (hit[r].st = "rejected" /\ hit[r].limiter \in DefaultKeyLimiters) =>
            hit[r].count >= MaxRequestsOf(hit[r].limiter))
    /\ [][\A ip \in Clients :
            LET k == LimiterKey("counting", ip) IN
            ipRequestCounts'[k] # ipRequestCounts[k] =>
                \E r \in Hits : hit[r].st = "idle" /\ hit'[r].key = k]_vars

\* The strict limiter rejects a client it has admitted no request of, on the
\* count of a request the standard limiter admitted.
C38_Witness ==
    \E r \in Hits :
        /\ hit[r].st = "rejected" /\ hit[r].limiter = "strict"
        /\ tally[<<"strict", hit[r].key[2]>>].admitted = 0
        /\ tally[<<"standard", hit[r].key[2]>>].admitted >= 1

(***************************************************************************)
(* Refresh tokens after a logout from all devices (checked under           *)
(* SessionSpec).                                                           *)
(***************************************************************************)
LogoutAllDone(p) ==
    Done(p, "logout") /\ proc[p].allDevices /\ proc[p].status = 200

====
